---- MODULE Spec2Model ----
(***************************************************************************)
(* Calcium-tracker backend: the estimation request pipeline.               *)
(*                                                                         *)
(*   functions/src/services/estimateCalciumService.ts  orchestrator        *)
(*   functions/src/services/openaiClient.ts            upstream client     *)
(*   functions/src/services/errors.ts                  EstimateError       *)
(*   functions/src/env.ts                              derived config      *)
(*   functions/src/index.ts                            HTTP handlers       *)
(*                                                                         *)
(* Strings are TLC strings.  A JavaScript number is held as an integer     *)
(* count of thousandths (0.6 is 600, 300 is 300000).  A JSON text is the   *)
(* sequence of its lexemes, each lexeme a string as it appears in the      *)
(* text; the text itself is their concatenation.                           *)
(***************************************************************************)
EXTENDS Integers, Sequences, FiniteSets, TLC

VARIABLES
    env,        \* process.env: variable name -> string, or Undefined
    pc,         \* position of the request being served
    request,    \* the inbound HTTP request (headers, body)
    now,        \* the wall clock, in ticks of TickMs milliseconds
    call,       \* the in-flight upstream call with its abort timer
    orch,       \* what estimateCalcium did for this request
    logs,       \* events passed to context.log for this request, in order
    response,   \* the HTTP response of this request
    pure        \* input and output of a pure function applied on its own

vars == <<env, pc, request, now, call, orch, logs, response, pure>>

-----------------------------------------------------------------------------
(* Bounds of the model *)

\* Longest JSON text, in lexemes, that the parser is applied to on its own.
MaxTextLen == 5
\* The clock stops advancing after this many ticks.
MaxTicks == 4
\* How many times a function under study is called on the same arguments.
MaxCalls == 2
\* Longest value of OPENAI_TIMEOUT_MS, in characters, spelt out of TimeoutChars.
MaxRawLen == 3

-----------------------------------------------------------------------------
(* JavaScript values *)

\* The value undefined, for strings that may be absent (process.env entries,
\* headers, optional config fields).
Undefined == "<undefined>"

\* A number with w whole units and f thousandths.
Milli(w, f) == w * 1000 + f

JUndefined == [t |-> "undefined", b |-> FALSE, n |-> 0, s |-> "", a |-> <<>>, o |-> <<>>]
JNull      == [t |-> "null",      b |-> FALSE, n |-> 0, s |-> "", a |-> <<>>, o |-> <<>>]
JBool(x)   == [t |-> "boolean",   b |-> x,     n |-> 0, s |-> "", a |-> <<>>, o |-> <<>>]
JNum(x)    == [t |-> "number",    b |-> FALSE, n |-> x, s |-> "", a |-> <<>>, o |-> <<>>]
JStr(x)    == [t |-> "string",    b |-> FALSE, n |-> 0, s |-> x,  a |-> <<>>, o |-> <<>>]
JArr(x)    == [t |-> "array",     b |-> FALSE, n |-> 0, s |-> "", a |-> x,    o |-> <<>>]
JObj(x)    == [t |-> "object",    b |-> FALSE, n |-> 0, s |-> "", a |-> <<>>, o |-> x]

\* ToBoolean: what `!v` and `if (v)` test.
Truthy(v) ==
    CASE v.t = "undefined" -> FALSE
      [] v.t = "null"      -> FALSE
      [] v.t = "boolean"   -> v.b
      [] v.t = "number"    -> v.n # 0
      [] v.t = "string"    -> v.s # ""
      [] OTHER             -> TRUE

\* The typeof operator.
TypeOf(v) ==
    CASE v.t = "null"  -> "object"
      [] v.t = "array" -> "object"
      [] OTHER         -> v.t

\* v.key for a value that is neither null nor undefined (reading a property of
\* those throws a TypeError, which the callers decide with CanRead).
GetProp(v, key) ==
    IF v.t = "object" /\ key \in DOMAIN v.o THEN v.o[key] ELSE JUndefined

CanRead(v) == v.t \notin {"undefined", "null"}

\* Truthiness of an optional string: undefined and "" are falsy.
TruthyStr(s) == s # Undefined /\ s # ""

-----------------------------------------------------------------------------
(* Strings *)

IsSpace(c) == c \in {" ", "\t", "\n"}

RECURSIVE TrimStart(_)
TrimStart(s) ==
    IF Len(s) = 0 THEN s
    ELSE IF IsSpace(SubSeq(s, 1, 1)) THEN TrimStart(SubSeq(s, 2, Len(s)))
    ELSE s

RECURSIVE TrimEnd(_)
TrimEnd(s) ==
    IF Len(s) = 0 THEN s
    ELSE IF IsSpace(SubSeq(s, Len(s), Len(s))) THEN TrimEnd(SubSeq(s, 1, Len(s) - 1))
    ELSE s

\* String.prototype.trim
Trim(s) == TrimEnd(TrimStart(s))

Digits == <<"0", "1", "2", "3", "4", "5", "6", "7", "8", "9">>

IsDigit(c) == \E i \in 1..10 : Digits[i] = c

DigitVal(c) == (CHOOSE i \in 1..10 : Digits[i] = c) - 1

RECURSIVE AllDigits(_)
AllDigits(s) ==
    Len(s) = 0 \/ (IsDigit(SubSeq(s, 1, 1)) /\ AllDigits(SubSeq(s, 2, Len(s))))

RECURSIVE DigitsVal(_)
DigitsVal(s) ==
    IF Len(s) = 0 THEN 0
    ELSE DigitsVal(SubSeq(s, 1, Len(s) - 1)) * 10 + DigitVal(SubSeq(s, Len(s), Len(s)))

RECURSIVE IndexOf(_, _, _)
\* Position of the first occurrence of character c in s at or after i, 0 if none.
IndexOf(s, c, i) ==
    IF i > Len(s) THEN 0
    ELSE IF SubSeq(s, i, i) = c THEN i
    ELSE IndexOf(s, c, i + 1)

-----------------------------------------------------------------------------
(* JSON.parse, on a text given as its lexemes *)

\* A string literal: "..." with no quote inside.
IsStringLit(tok) ==
    /\ Len(tok) >= 2
    /\ SubSeq(tok, 1, 1) = "\""
    /\ IndexOf(tok, "\"", 2) = Len(tok)

StringLitVal(tok) == SubSeq(tok, 2, Len(tok) - 1)

\* An unsigned number literal: digits, optionally a point and one to three
\* digits (no leading zero before another digit).
IsUnsignedLit(tok) ==
    LET dot  == IndexOf(tok, ".", 1)
        int  == IF dot = 0 THEN tok ELSE SubSeq(tok, 1, dot - 1)
        frac == IF dot = 0 THEN "" ELSE SubSeq(tok, dot + 1, Len(tok))
    IN  /\ Len(int) >= 1
        /\ AllDigits(int)
        /\ (Len(int) > 1 => SubSeq(int, 1, 1) # "0")
        /\ (dot # 0 => Len(frac) \in 1..3 /\ AllDigits(frac))

UnsignedLitVal(tok) ==
    LET dot  == IndexOf(tok, ".", 1)
        int  == IF dot = 0 THEN tok ELSE SubSeq(tok, 1, dot - 1)
        frac == IF dot = 0 THEN "" ELSE SubSeq(tok, dot + 1, Len(tok))
        pad  == CASE Len(frac) = 0 -> "000"
                  [] Len(frac) = 1 -> frac \o "00"
                  [] Len(frac) = 2 -> frac \o "0"
                  [] OTHER         -> frac
    IN  Milli(DigitsVal(int), DigitsVal(pad))

IsNumberLit(tok) ==
    IF Len(tok) >= 1 /\ SubSeq(tok, 1, 1) = "-"
    THEN IsUnsignedLit(SubSeq(tok, 2, Len(tok)))
    ELSE IsUnsignedLit(tok)

NumberLitVal(tok) ==
    IF SubSeq(tok, 1, 1) = "-"
    THEN 0 - UnsignedLitVal(SubSeq(tok, 2, Len(tok)))
    ELSE UnsignedLitVal(tok)

ParseFail == [ok |-> FALSE, val |-> JUndefined, next |-> 0]
ParseOk(v, i) == [ok |-> TRUE, val |-> v, next |-> i]

\* obj with key set to v; a repeated key keeps the last value, as JSON.parse does.
PutMember(obj, key, v) ==
    [k \in (DOMAIN obj) \cup {key} |-> IF k = key THEN v ELSE obj[k]]

RECURSIVE ParseValue(_, _)
RECURSIVE ParseMembers(_, _, _)
RECURSIVE ParseElements(_, _, _)

\* The value starting at lexeme i.
ParseValue(toks, i) ==
    IF i > Len(toks) THEN ParseFail
    ELSE LET tok == toks[i] IN
        CASE tok = "null"      -> ParseOk(JNull, i + 1)
          [] tok = "true"      -> ParseOk(JBool(TRUE), i + 1)
          [] tok = "false"     -> ParseOk(JBool(FALSE), i + 1)
          [] IsStringLit(tok)  -> ParseOk(JStr(StringLitVal(tok)), i + 1)
          [] IsNumberLit(tok)  -> ParseOk(JNum(NumberLitVal(tok)), i + 1)
          [] tok = "{" ->
                IF i + 1 <= Len(toks) /\ toks[i + 1] = "}"
                THEN ParseOk(JObj(<<>>), i + 2)
                ELSE ParseMembers(toks, i + 1, <<>>)
          [] tok = "[" ->
                IF i + 1 <= Len(toks) /\ toks[i + 1] = "]"
                THEN ParseOk(JArr(<<>>), i + 2)
                ELSE ParseElements(toks, i + 1, <<>>)
          [] OTHER -> ParseFail

\* string : value, then either , and more members or the closing brace.
ParseMembers(toks, i, acc) ==
    IF i + 1 > Len(toks) \/ ~IsStringLit(toks[i]) \/ toks[i + 1] # ":" THEN ParseFail
    ELSE LET r == ParseValue(toks, i + 2) IN
        IF ~r.ok \/ r.next > Len(toks) THEN ParseFail
        ELSE LET acc2 == PutMember(acc, StringLitVal(toks[i]), r.val) IN
            CASE toks[r.next] = "}" -> ParseOk(JObj(acc2), r.next + 1)
              [] toks[r.next] = "," -> ParseMembers(toks, r.next + 1, acc2)
              [] OTHER              -> ParseFail

\* value, then either , and more elements or the closing bracket.
ParseElements(toks, i, acc) ==
    LET r == ParseValue(toks, i) IN
    IF ~r.ok \/ r.next > Len(toks) THEN ParseFail
    ELSE LET acc2 == Append(acc, r.val) IN
        CASE toks[r.next] = "]" -> ParseOk(JArr(acc2), r.next + 1)
          [] toks[r.next] = "," -> ParseElements(toks, r.next + 1, acc2)
          [] OTHER              -> ParseFail

\* JSON.parse(text): the value, or a SyntaxError when the text is not exactly
\* one JSON value.
JSONParse(toks) ==
    LET r == ParseValue(toks, 1) IN
    IF r.ok /\ r.next = Len(toks) + 1
    THEN [ok |-> TRUE, val |-> r.val]
    ELSE [ok |-> FALSE, val |-> JUndefined]

-----------------------------------------------------------------------------
(* services/errors.ts *)

EstimateErrorCodes == {"upstream_unavailable", "model_invalid_response", "upstream_timeout"}

\* new EstimateError(code, message)
EstimateError(code, message) ==
    [isEstimateError |-> TRUE, name |-> "EstimateError", code |-> code, message |-> message]

\* Any other thrown Error, told apart by its name.
OtherError(name, message) ==
    [isEstimateError |-> FALSE, name |-> name, code |-> "", message |-> message]

NoError == OtherError("", "")

isEstimateError(error) == error.isEstimateError

\* How a call ends: with a value or with a thrown error.
Return(v) == [threw |-> FALSE, value |-> v, error |-> NoError]
Throw(e)  == [threw |-> TRUE, value |-> JUndefined, error |-> e]

\* The request-scoped state when there is none.
NoRequest == [present |-> FALSE]
NoCall == [state |-> "none"]
NoOrch == [invoked |-> FALSE]
NoResponse == [sent |-> FALSE]
NoPure == [fn |-> "none"]

-----------------------------------------------------------------------------
(* services/openaiClient.ts *)

\* getOutputText(response): the flattened output_text when it is non-empty,
\* else the text of the first content item of type output_text whose text is
\* a string, else null.
RECURSIVE FirstOutputText(_, _)
FirstOutputText(contentItems, i) ==
    IF i > Len(contentItems) THEN [isNull |-> TRUE, text |-> <<>>]
    ELSE IF contentItems[i].type = "output_text" /\ contentItems[i].textIsString
         THEN [isNull |-> FALSE, text |-> contentItems[i].text]
         ELSE FirstOutputText(contentItems, i + 1)

RECURSIVE FirstItemText(_, _)
FirstItemText(output, i) ==
    IF i > Len(output) THEN [isNull |-> TRUE, text |-> <<>>]
    ELSE IF ~output[i].hasContent THEN FirstItemText(output, i + 1)
    ELSE LET found == FirstOutputText(output[i].content, 1) IN
         IF ~found.isNull THEN found ELSE FirstItemText(output, i + 1)

getOutputText(resp) ==
    IF resp.output_text # <<>>
    THEN [isNull |-> FALSE, text |-> resp.output_text]
    ELSE FirstItemText(resp.output, 1)

\* A mistaken validator that accepts every JSON object, with or without a
\* numeric calcium_mg.
parseEstimatePayloadWithoutCalciumCheck(payload) ==
    LET parsed == JSONParse(payload) IN
    IF ~parsed.ok
    THEN Throw(EstimateError("model_invalid_response", "Model returned invalid JSON."))
    ELSE IF ~Truthy(parsed.val) \/ TypeOf(parsed.val) # "object"
    THEN Throw(EstimateError("model_invalid_response", "Model returned empty JSON."))
    ELSE Return(parsed.val)

\* parseEstimatePayload(payload): the parsed object, or model_invalid_response.
parseEstimatePayload(payload) ==
    LET parsed == JSONParse(payload) IN
    IF ~parsed.ok
    THEN Throw(EstimateError("model_invalid_response", "Model returned invalid JSON."))
    ELSE IF ~Truthy(parsed.val) \/ TypeOf(parsed.val) # "object"
    THEN Throw(EstimateError("model_invalid_response", "Model returned empty JSON."))
    ELSE IF TypeOf(GetProp(parsed.val, "calcium_mg")) # "number"
    THEN Throw(EstimateError("model_invalid_response", "Model response missing calcium estimate."))
    ELSE Return(parsed.val)

\* A mistaken catch clause that does not tell an aborted call from a failed
\* transport.
ClassifyUpstreamErrorIgnoringAbort(error) ==
    IF isEstimateError(error) THEN error
    ELSE EstimateError("upstream_unavailable", "OpenAI request failed.")

\* The catch clause of estimateFromImageAndAnswers: an EstimateError passes,
\* an AbortError becomes upstream_timeout, anything else upstream_unavailable.
ClassifyUpstreamError(error) ==
    IF isEstimateError(error) THEN error
    ELSE IF error.name = "AbortError"
    THEN EstimateError("upstream_timeout", "OpenAI request timed out.")
    ELSE EstimateError("upstream_unavailable", "OpenAI request failed.")

\* The body of the try block after `await client.responses.create(...)` has
\* resolved with resp.
HandleUpstreamResponse(resp) ==
    IF ~resp.hasOutput
    THEN Throw(EstimateError("model_invalid_response", "Model returned a streamed response."))
    ELSE LET outputText == getOutputText(resp) IN
         IF outputText.isNull \/ outputText.text = <<>>
         THEN Throw(EstimateError("model_invalid_response", "Model returned empty response."))
         ELSE parseEstimatePayload(outputText.text)

\* estimateFromImageAndAnswers from the point where the awaited upstream call
\* settles: settlement is [resolved, resp, error].
estimateFromImageAndAnswersSettle(settlement) ==
    LET body == IF settlement.resolved
                THEN HandleUpstreamResponse(settlement.resp)
                ELSE Throw(settlement.error)
    IN  IF body.threw THEN Throw(ClassifyUpstreamError(body.error)) ELSE body

-----------------------------------------------------------------------------
(* services/estimateCalciumService.ts: configuration and prompt *)

DEFAULT_MODEL == "gpt-4o-mini"
DEFAULT_TIMEOUT_MS == 45000
DEFAULT_PROMPT_VERSION == "estimateCalcium_v1"

UpperCase == "ABCDEFGHIJKLMNOPQRSTUVWXYZ"
LowerCase == "abcdefghijklmnopqrstuvwxyz"

RECURSIVE ToLowerCase(_)
\* String.prototype.toLowerCase
ToLowerCase(s) ==
    IF Len(s) = 0 THEN s
    ELSE LET c == SubSeq(s, 1, 1)
             i == IndexOf(UpperCase, c, 1)
         IN  (IF i = 0 THEN c ELSE SubSeq(LowerCase, i, i)) \o ToLowerCase(SubSeq(s, 2, Len(s)))

\* Number(raw) for the decimal notations: the empty or blank string is 0, a
\* signed decimal literal (leading zeros allowed, the digits before or after
\* the point may be absent) its value, Infinity non-finite, anything else NaN.
\* value is in thousandths.
RECURSIVE StripLeadingZeros(_)
StripLeadingZeros(s) ==
    IF Len(s) > 1 /\ SubSeq(s, 1, 1) = "0" /\ IsDigit(SubSeq(s, 2, 2))
    THEN StripLeadingZeros(SubSeq(s, 2, Len(s)))
    ELSE s

Number(raw) ==
    LET t        == Trim(raw)
        sign     == IF Len(t) >= 1 THEN SubSeq(t, 1, 1) ELSE ""
        unsigned == IF sign \in {"+", "-"} THEN SubSeq(t, 2, Len(t)) ELSE t
        dot      == IndexOf(unsigned, ".", 1)
        literal  == IF Len(unsigned) > 1 /\ dot = 1 THEN "0" \o unsigned
                    ELSE IF Len(unsigned) > 1 /\ dot = Len(unsigned)
                    THEN SubSeq(unsigned, 1, dot - 1)
                    ELSE unsigned
        digits   == StripLeadingZeros(literal)
    IN  IF t = "" THEN [finite |-> TRUE, value |-> 0]
        ELSE IF unsigned = "Infinity" THEN [finite |-> FALSE, value |-> 0]
        ELSE IF IsUnsignedLit(digits)
        THEN [finite |-> TRUE,
              value |-> IF sign = "-" THEN 0 - UnsignedLitVal(digits) ELSE UnsignedLitVal(digits)]
        ELSE [finite |-> FALSE, value |-> 0]

\* parseTimeoutMs(raw): the configured timeout in whole milliseconds.
parseTimeoutMs(raw) ==
    IF ~TruthyStr(raw) THEN DEFAULT_TIMEOUT_MS
    ELSE LET parsed == Number(raw) IN
         IF parsed.finite /\ parsed.value > 0
         THEN parsed.value \div 1000
         ELSE DEFAULT_TIMEOUT_MS

\* raw?.trim() || fallback
TrimOr(raw, fallback) ==
    IF raw # Undefined /\ Trim(raw) # "" THEN Trim(raw) ELSE fallback

\* raw && raw.trim().length > 0 ? raw : fallback
NonBlankOr(raw, fallback) ==
    IF TruthyStr(raw) /\ Len(Trim(raw)) > 0 THEN raw ELSE fallback

getPromptVersion(e) == TrimOr(e["ESTIMATOR_PROMPT_VERSION"], DEFAULT_PROMPT_VERSION)

\* A mistaken getConfig that keeps a blank API key.
getConfigKeepingBlankKey(e) ==
    LET apiKey == e["OPENAI_API_KEY"] IN
    [ useMock        |-> ToLowerCase(IF e["ESTIMATE_MODE"] = Undefined THEN ""
                                     ELSE e["ESTIMATE_MODE"]) = "mock",
      apiKeyPresent  |-> TruthyStr(apiKey),
      model          |-> NonBlankOr(e["OPENAI_MODEL"], DEFAULT_MODEL),
      baseUrl        |-> NonBlankOr(e["OPENAI_BASE_URL"], Undefined),
      apiKey         |-> apiKey,
      timeoutMs      |-> parseTimeoutMs(e["OPENAI_TIMEOUT_MS"]),
      promptVersion  |-> getPromptVersion(e),
      promptOverride |-> TrimOr(e["ESTIMATOR_PROMPT"], Undefined) ]

\* getConfig(): the EstimateConfig of the environment e.
getConfig(e) ==
    LET apiKey == NonBlankOr(e["OPENAI_API_KEY"], Undefined) IN
    [ useMock        |-> ToLowerCase(IF e["ESTIMATE_MODE"] = Undefined THEN ""
                                     ELSE e["ESTIMATE_MODE"]) = "mock",
      apiKeyPresent  |-> TruthyStr(apiKey),
      model          |-> NonBlankOr(e["OPENAI_MODEL"], DEFAULT_MODEL),
      baseUrl        |-> NonBlankOr(e["OPENAI_BASE_URL"], Undefined),
      apiKey         |-> apiKey,
      timeoutMs      |-> parseTimeoutMs(e["OPENAI_TIMEOUT_MS"]),
      promptVersion  |-> getPromptVersion(e),
      promptOverride |-> TrimOr(e["ESTIMATOR_PROMPT"], Undefined) ]

\* Array.prototype.join("\n")
RECURSIVE JoinLines(_)
JoinLines(lines) ==
    IF Len(lines) = 0 THEN ""
    ELSE IF Len(lines) = 1 THEN lines[1]
    ELSE lines[1] \o "\n" \o JoinLines(Tail(lines))

\* The template of buildEstimatePrompt.
PromptTemplate(answers, locale) ==
    JoinLines(<<
        "You are a nutrition estimator.",
        "Estimate calcium mg for the meal in the photo.",
        "Output JSON only. No markdown.",
        "calcium_mg must be an integer (mg).",
        "confidence must be between 0 and 1.",
        "confidence_label must be one of: low, medium, high.",
        "If uncertain, still estimate but lower confidence.",
        "Write explanation_short and warnings in locale: " \o locale \o ".",
        "Use these answers:",
        "- Portion size: " \o answers.portion_size,
        "- Contains dairy: " \o answers.contains_dairy,
        "- Contains tofu or small fish bones: " \o answers.contains_tofu_or_small_fish_bones >>)

\* A mistaken builder that appends the override to the template instead of
\* returning it alone.
buildEstimatePromptAppendingOverride(answers, locale, promptOverride) ==
    IF TruthyStr(promptOverride)
    THEN PromptTemplate(answers, locale) \o "\n" \o promptOverride
    ELSE PromptTemplate(answers, locale)

\* buildEstimatePrompt(answers, locale, promptOverride)
buildEstimatePrompt(answers, locale, promptOverride) ==
    IF TruthyStr(promptOverride) THEN promptOverride
    ELSE PromptTemplate(answers, locale)

-----------------------------------------------------------------------------
(* services/estimateCalciumService.ts: estimateCalcium *)

\* One logger call: the event name and its payload (the timestamp that
\* logEvent adds is left out).
Event(name, payload) == [event |-> name, payload |-> payload]

\* The fixed result of mock mode.
MockResult ==
    JObj([ calcium_mg        |-> JNum(Milli(300, 0)),
           confidence        |-> JNum(Milli(0, 600)),
           confidence_label  |-> JStr("medium"),
           explanation_short |-> JStr("Mock estimate for development."),
           warnings          |-> JArr(<<>>) ])

NoOutcome == [result |-> JUndefined, rawText |-> JUndefined, latencyMs |-> 0, mode |-> "none"]
NoArgs == [prompt |-> "", model |-> "", apiKey |-> "", baseUrl |-> "", timeoutMs |-> 0]

\* Math.round((imageBase64.length * 3) / 4)
ImageBytesApprox(imageBase64) == (Len(imageBase64) * 6 + 4) \div 8

AnswersValue(answers) ==
    JObj([ portion_size   |-> JStr(answers.portion_size),
           contains_dairy |-> JStr(answers.contains_dairy),
           contains_tofu_or_small_fish_bones |-> JStr(answers.contains_tofu_or_small_fish_bones) ])

\* A mistaken orchestrator start that lets mock mode fall through to the
\* missing-key guard and the upstream call.
estimateCalciumStartIgnoringMock(imageBase64, answers, locale, requestId, config) ==
    IF ~TruthyStr(config.apiKey)
    THEN [ state |-> "threw", events |-> <<>>, outcome |-> NoOutcome,
           error |-> EstimateError("upstream_unavailable", "OpenAI API key missing."),
           args |-> NoArgs ]
    ELSE [ state |-> "awaiting",
           events |-> << Event("estimate_openai_request_start",
                               [ request_id |-> JStr(requestId),
                                 image_bytes_approx |-> JNum(Milli(ImageBytesApprox(imageBase64), 0)),
                                 answers |-> AnswersValue(answers) ]) >>,
           outcome |-> NoOutcome, error |-> NoError,
           args |-> [ prompt    |-> buildEstimatePrompt(answers, locale, config.promptOverride),
                      model     |-> config.model,
                      apiKey    |-> config.apiKey,
                      baseUrl   |-> config.baseUrl,
                      timeoutMs |-> config.timeoutMs ] ]

\* A mistaken orchestrator start without the missing-key guard.
estimateCalciumStartWithoutKeyGuard(imageBase64, answers, locale, requestId, config) ==
    IF config.useMock
    THEN [ state |-> "returned",
           events |-> << Event("estimate_request_completed",
                               [ request_id |-> JStr(requestId),
                                 result |-> JStr("mock_success"),
                                 calcium_mg |-> GetProp(MockResult, "calcium_mg"),
                                 confidence_label |-> GetProp(MockResult, "confidence_label") ]) >>,
           outcome |-> [ result |-> MockResult, rawText |-> JNull, latencyMs |-> 0, mode |-> "mock" ],
           error |-> NoError, args |-> NoArgs ]
    ELSE [ state |-> "awaiting",
           events |-> << Event("estimate_openai_request_start",
                               [ request_id |-> JStr(requestId),
                                 image_bytes_approx |-> JNum(Milli(ImageBytesApprox(imageBase64), 0)),
                                 answers |-> AnswersValue(answers) ]) >>,
           outcome |-> NoOutcome, error |-> NoError,
           args |-> [ prompt    |-> buildEstimatePrompt(answers, locale, config.promptOverride),
                      model     |-> config.model,
                      apiKey    |-> config.apiKey,
                      baseUrl   |-> config.baseUrl,
                      timeoutMs |-> config.timeoutMs ] ]

\* estimateCalcium up to its await: the mock result, the missing-key failure,
\* or the start event and the arguments of the upstream call.
estimateCalciumStart(imageBase64, answers, locale, requestId, config) ==
    IF config.useMock
    THEN [ state |-> "returned",
           events |-> << Event("estimate_request_completed",
                               [ request_id |-> JStr(requestId),
                                 result |-> JStr("mock_success"),
                                 calcium_mg |-> GetProp(MockResult, "calcium_mg"),
                                 confidence_label |-> GetProp(MockResult, "confidence_label") ]) >>,
           outcome |-> [ result |-> MockResult, rawText |-> JNull, latencyMs |-> 0, mode |-> "mock" ],
           error |-> NoError, args |-> NoArgs ]
    ELSE IF ~TruthyStr(config.apiKey)
    THEN [ state |-> "threw", events |-> <<>>, outcome |-> NoOutcome,
           error |-> EstimateError("upstream_unavailable", "OpenAI API key missing."),
           args |-> NoArgs ]
    ELSE [ state |-> "awaiting",
           events |-> << Event("estimate_openai_request_start",
                               [ request_id |-> JStr(requestId),
                                 image_bytes_approx |-> JNum(Milli(ImageBytesApprox(imageBase64), 0)),
                                 answers |-> AnswersValue(answers) ]) >>,
           outcome |-> NoOutcome, error |-> NoError,
           args |-> [ prompt    |-> buildEstimatePrompt(answers, locale, config.promptOverride),
                      model     |-> config.model,
                      apiKey    |-> config.apiKey,
                      baseUrl   |-> config.baseUrl,
                      timeoutMs |-> config.timeoutMs ] ]

DoneEvent(requestId, latencyMs) ==
    Event("estimate_openai_request_done",
          [ request_id |-> JStr(requestId), latency_ms |-> JNum(Milli(latencyMs, 0)) ])

\* A mistaken catch clause that rethrows without logging the completion of
\* the upstream call.
estimateCalciumCatchWithoutDoneEvent(error, latencyMs, requestId) ==
    [ state |-> "threw", events |-> <<>>, outcome |-> NoOutcome, error |-> error ]

\* The catch clause of estimateCalcium: the done event, the parse-error event
\* for a model_invalid_response, and the error rethrown as it is.
estimateCalciumCatch(error, latencyMs, requestId) ==
    [ state |-> "threw",
      events |-> << DoneEvent(requestId, latencyMs) >> \o
                 ( IF isEstimateError(error) /\ error.code = "model_invalid_response"
                   THEN << Event("estimate_openai_parse_error",
                                 [ request_id |-> JStr(requestId),
                                   message |-> JStr(error.message) ]) >>
                   ELSE <<>> ),
      outcome |-> NoOutcome,
      error |-> error ]

\* The try block of estimateCalcium once estimateFromImageAndAnswers has
\* settled with clientResult.  openaiResult is what the client returned, and
\* reading openaiResult.result.calcium_mg throws a TypeError, after the done
\* event has been logged, when openaiResult.result is undefined or null.
estimateCalciumTry(clientResult, latencyMs, requestId) ==
    IF clientResult.threw
    THEN [ state |-> "threw", events |-> <<>>, outcome |-> NoOutcome, error |-> clientResult.error ]
    ELSE LET openaiResult == clientResult.value
             result       == GetProp(openaiResult, "result")
         IN  IF ~CanRead(result)
             THEN [ state |-> "threw",
                    events |-> << DoneEvent(requestId, latencyMs) >>,
                    outcome |-> NoOutcome,
                    error |-> OtherError("TypeError", "Cannot read properties of undefined") ]
             ELSE [ state |-> "returned",
                    events |-> << DoneEvent(requestId, latencyMs),
                                  Event("estimate_request_completed",
                                        [ request_id |-> JStr(requestId),
                                          result |-> JStr("openai_success"),
                                          calcium_mg |-> GetProp(result, "calcium_mg"),
                                          confidence_label |-> GetProp(result, "confidence_label") ]) >>,
                    outcome |-> [ result |-> result,
                                  rawText |-> GetProp(openaiResult, "rawText"),
                                  latencyMs |-> latencyMs,
                                  mode |-> "openai" ],
                    error |-> NoError ]

\* The events of the try block followed by what the catch clause does with
\* the error thrown in it.
Caught(attempt, caught) == [caught EXCEPT !.events = attempt.events \o @]

\* estimateCalcium from the point where estimateFromImageAndAnswers has
\* settled with clientResult.
estimateCalciumSettle(clientResult, latencyMs, requestId) ==
    LET attempt == estimateCalciumTry(clientResult, latencyMs, requestId) IN
    IF attempt.state = "threw"
    THEN Caught(attempt, estimateCalciumCatch(attempt.error, latencyMs, requestId))
    ELSE attempt

-----------------------------------------------------------------------------
(* env.ts *)

DEFAULT_OPENAI_MODEL == "gpt-4o-mini"
DEFAULT_OPENAI_TIMEOUT_MS == 45000

\* parseTimeoutMs(raw) of env.ts
envParseTimeoutMs(raw) ==
    IF ~TruthyStr(raw) THEN DEFAULT_OPENAI_TIMEOUT_MS
    ELSE LET parsed == Number(raw) IN
         IF parsed.finite /\ parsed.value > 0
         THEN parsed.value \div 1000
         ELSE DEFAULT_OPENAI_TIMEOUT_MS

\* isPresent(value)
isPresent(value) == value # Undefined /\ Len(Trim(value)) > 0

\* raw ?? fallback
OrDefault(raw, fallback) == IF raw = Undefined THEN fallback ELSE raw

\* A mistaken getDerivedConfig that answers from what was read when the module
\* was loaded, in an environment where nothing was set yet.
getDerivedConfigAtModuleLoad(e) ==
    LET atLoad == [name \in DOMAIN e |-> Undefined] IN
    [ estimationEnabled     |-> atLoad["ESTIMATION_ENABLED"] # "false",
      lockoutActive         |-> atLoad["LOCKOUT_ACTIVE"] = "true",
      rateLimitEnabled      |-> atLoad["RATE_LIMIT_ENABLED"] # "false",
      circuitBreakerEnabled |-> atLoad["CIRCUIT_BREAKER_ENABLED"] # "false",
      adminKey              |-> OrDefault(atLoad["ADMIN_KEY"], "changeme"),
      deviceHashSalt        |-> OrDefault(atLoad["DEVICE_HASH_SALT"], "local-dev-salt"),
      localizationPackUrlBase |-> OrDefault(atLoad["LOCALIZATION_PACK_URL_BASE"],
                                            "http://localhost:7071/locales"),
      useMockEstimate       |-> ToLowerCase(OrDefault(atLoad["USE_MOCK_ESTIMATE"], "false")) = "true",
      openaiModel           |-> TrimOr(atLoad["OPENAI_MODEL"], DEFAULT_OPENAI_MODEL),
      openaiBaseUrl         |-> TrimOr(atLoad["OPENAI_BASE_URL"], Undefined),
      openaiTimeoutMs       |-> envParseTimeoutMs(atLoad["OPENAI_TIMEOUT_MS"]),
      estimatorPromptVersion |-> TrimOr(atLoad["ESTIMATOR_PROMPT_VERSION"], DEFAULT_PROMPT_VERSION),
      estimatorPrompt       |-> TrimOr(atLoad["ESTIMATOR_PROMPT"], Undefined) ]

\* getDerivedConfig()
getDerivedConfig(e) ==
    [ estimationEnabled     |-> e["ESTIMATION_ENABLED"] # "false",
      lockoutActive         |-> e["LOCKOUT_ACTIVE"] = "true",
      rateLimitEnabled      |-> e["RATE_LIMIT_ENABLED"] # "false",
      circuitBreakerEnabled |-> e["CIRCUIT_BREAKER_ENABLED"] # "false",
      adminKey              |-> OrDefault(e["ADMIN_KEY"], "changeme"),
      deviceHashSalt        |-> OrDefault(e["DEVICE_HASH_SALT"], "local-dev-salt"),
      localizationPackUrlBase |-> OrDefault(e["LOCALIZATION_PACK_URL_BASE"],
                                            "http://localhost:7071/locales"),
      useMockEstimate       |-> ToLowerCase(OrDefault(e["USE_MOCK_ESTIMATE"], "false")) = "true",
      openaiModel           |-> TrimOr(e["OPENAI_MODEL"], DEFAULT_OPENAI_MODEL),
      openaiBaseUrl         |-> TrimOr(e["OPENAI_BASE_URL"], Undefined),
      openaiTimeoutMs       |-> envParseTimeoutMs(e["OPENAI_TIMEOUT_MS"]),
      estimatorPromptVersion |-> TrimOr(e["ESTIMATOR_PROMPT_VERSION"], DEFAULT_PROMPT_VERSION),
      estimatorPrompt       |-> TrimOr(e["ESTIMATOR_PROMPT"], Undefined) ]

\* The names of getEnvSpec(), in its order.
EnvSpecNames ==
    << "ESTIMATION_ENABLED", "LOCKOUT_ACTIVE", "RATE_LIMIT_ENABLED", "CIRCUIT_BREAKER_ENABLED",
       "ADMIN_KEY", "DEVICE_HASH_SALT", "LOCALIZATION_PACK_URL_BASE", "USE_MOCK_ESTIMATE",
       "OPENAI_API_KEY", "OPENAI_MODEL", "OPENAI_BASE_URL", "OPENAI_TIMEOUT_MS",
       "ESTIMATOR_PROMPT_VERSION", "ESTIMATOR_PROMPT" >>

\* A mistaken requiredWhen of OPENAI_API_KEY that forgets the lockout.
requiredWhenIgnoringLockout(name, cfg) ==
    /\ name = "OPENAI_API_KEY"
    /\ cfg.estimationEnabled /\ ~cfg.useMockEstimate

\* spec.requiredWhen(cfg)
requiredWhen(name, cfg) ==
    /\ name = "OPENAI_API_KEY"
    /\ cfg.estimationEnabled /\ ~cfg.lockoutActive /\ ~cfg.useMockEstimate

RECURSIVE MissingRequiredFrom(_, _, _)
MissingRequiredFrom(i, cfg, e) ==
    IF i > Len(EnvSpecNames) THEN <<>>
    ELSE ( IF requiredWhen(EnvSpecNames[i], cfg) /\ ~isPresent(e[EnvSpecNames[i]])
           THEN << EnvSpecNames[i] >> ELSE <<>> ) \o MissingRequiredFrom(i + 1, cfg, e)

\* buildEnvReport(cfg).missing_required
missing_required(cfg, e) == MissingRequiredFrom(1, cfg, e)

\* spec.isSecret
isSecret(name) == name \in {"ADMIN_KEY", "DEVICE_HASH_SALT", "OPENAI_API_KEY"}

\* sha256_8(value): the first eight hex digits of the SHA-256 digest, given
\* for the secret values that environments of this model hold.
sha256_8(value) ==
    CASE value = "sk-live"   -> "3f3086c6"
      [] value = " sk-live " -> "f5b6f768"
      [] value = "s3cret"    -> "1ec1c26b"
      [] value = "changeme"  -> "057ba03d"
      [] value = "pepper"    -> "8cbbcf29"

\* truncateValue(value, maxLength = 120)
truncateValue(value) ==
    IF Len(value) <= 120 THEN value ELSE SubSeq(value, 1, 120) \o "..."

\* A mistaken snapshot entry that treats every variable as a plain one and
\* shows its value.
SnapshotEntryIgnoringSecrecy(name, e) ==
    IF isPresent(e[name])
    THEN [ present |-> TRUE, value |-> truncateValue(e[name]) ]
    ELSE [ present |-> FALSE ]

\* snapshot[spec.name] of buildEnvReport
SnapshotEntry(name, e) ==
    IF isSecret(name)
    THEN IF isPresent(e[name])
         THEN [ present |-> TRUE, length |-> Len(e[name]), sha256_8 |-> sha256_8(e[name]) ]
         ELSE [ present |-> FALSE ]
    ELSE IF isPresent(e[name])
         THEN [ present |-> TRUE, value |-> truncateValue(e[name]) ]
         ELSE [ present |-> FALSE ]

\* The statuses (name, present, required) that buildEnvReport pushes to its
\* required list (wanted = TRUE) or to its optional list (wanted = FALSE),
\* in the order of getEnvSpec().
RECURSIVE StatusesFrom(_, _, _, _)
StatusesFrom(i, wanted, cfg, e) ==
    IF i > Len(EnvSpecNames) THEN <<>>
    ELSE ( IF requiredWhen(EnvSpecNames[i], cfg) = wanted
           THEN << [ name |-> EnvSpecNames[i], present |-> isPresent(e[EnvSpecNames[i]]),
                     required |-> wanted ] >>
           ELSE <<>> ) \o StatusesFrom(i + 1, wanted, cfg, e)

\* buildEnvReport(cfg) in the environment e
buildEnvReport(cfg, e) ==
    [ required         |-> StatusesFrom(1, TRUE, cfg, e),
      optional         |-> StatusesFrom(1, FALSE, cfg, e),
      missing_required |-> missing_required(cfg, e),
      snapshot         |-> [ name \in {EnvSpecNames[i] : i \in 1..Len(EnvSpecNames)} |->
                               SnapshotEntry(name, e) ] ]

-----------------------------------------------------------------------------
(* index.ts: helpers of the HTTP handlers *)

SUPPORTED_LOCALES == {"en", "zh-Hans", "es"}
PORTION_SIZES == {"small", "medium", "large"}
YES_NO_NOT_SURE_VALUES == {"yes", "no", "not_sure"}

\* A mistaken hash that lets the device install id through as it is.
hashDeviceInstallIdAsIdentity(deviceInstallId, salt) == deviceInstallId

\* hashDeviceInstallId: the hex SHA-256 digest of `${salt}:${deviceInstallId}`,
\* given for the salts and the device install id of this model.
hashDeviceInstallId(deviceInstallId, salt) ==
    CASE salt = "local-dev-salt" /\ deviceInstallId = "device-1" ->
             "4e558634ba1f2114db9b6637ab305994e6936f94da78c2b21275b9fa47ec0289"
      [] salt = "pepper" /\ deviceInstallId = "device-1" ->
             "3ef7feed70939e5cf8ecf3bf0a405b69b26c5f5be9ba1747ad6b10778a6983a7"

getHeader(req, name) == req.headers[name]

\* isNonEmptyString on a header, which is a string or undefined
isNonEmptyString(value) == value # Undefined /\ Len(Trim(value)) > 0

\* isNonEmptyString on a value of a parsed body
isNonEmptyStringValue(v) == v.t = "string" /\ Len(Trim(v.s)) > 0

isLocale(v) == isNonEmptyStringValue(v) /\ v.s \in SUPPORTED_LOCALES
isPortionSize(v) == isNonEmptyStringValue(v) /\ v.s \in PORTION_SIZES
isYesNoNotSure(v) == isNonEmptyStringValue(v) /\ v.s \in YES_NO_NOT_SURE_VALUES

\* { ...body, request_id } when requestId is truthy
WithRequestId(body, requestId) ==
    IF TruthyStr(requestId) THEN PutMember(body, "request_id", JStr(requestId)) ELSE body

invalidRequest(message, requestId) ==
    [ sent |-> TRUE, status |-> 400,
      jsonBody |-> WithRequestId([error |-> JStr("invalid_request"), message |-> JStr(message)],
                                 requestId) ]

errorResponse(status, error, message, requestId) ==
    [ sent |-> TRUE, status |-> status,
      jsonBody |-> [error |-> JStr(error), message |-> JStr(message), request_id |-> JStr(requestId)] ]

rateLimited(requestId) ==
    [ sent |-> TRUE, status |-> 429,
      jsonBody |-> WithRequestId([error |-> JStr("rate_limited"),
                                  retry_after_seconds |-> JNum(Milli(60, 0))], requestId) ]

temporarilyDisabled(message, requestId) ==
    [ sent |-> TRUE, status |-> 503,
      jsonBody |-> WithRequestId([error |-> JStr("temporarily_disabled"), message |-> JStr(message)],
                                 requestId) ]

\* parseJson(request): the parsed body, or null when it is not JSON
parseJson(req) ==
    LET parsed == JSONParse(req.body) IN IF parsed.ok THEN parsed.val ELSE JNull

isRateLimited == FALSE

isDebugMode(req, e) == e["NODE_ENV"] # "production" \/ getHeader(req, "x-debug") = "1"

\* isEstimateCalciumRequest(value)
isEstimateCalciumRequest(value) ==
    /\ Truthy(value) /\ TypeOf(value) = "object"
    /\ isNonEmptyStringValue(GetProp(value, "image_base64"))
    /\ GetProp(value, "image_mime").t = "string"
    /\ GetProp(value, "image_mime").s = "image/jpeg"
    /\ LET answers == GetProp(value, "answers") IN
          /\ Truthy(answers) /\ TypeOf(answers) = "object"
          /\ isPortionSize(GetProp(answers, "portion_size"))
          /\ isYesNoNotSure(GetProp(answers, "contains_dairy"))
          /\ isYesNoNotSure(GetProp(answers, "contains_tofu_or_small_fish_bones"))
    /\ isLocale(GetProp(value, "locale"))
    /\ isNonEmptyStringValue(GetProp(value, "ui_version"))

\* A mistaken mapping that answers a timeout with 502, the status of the
\* other upstream failures.
MapEstimateFailureTimeoutAs502(error, requestId) ==
    IF isEstimateError(error)
    THEN IF error.code = "model_invalid_response"
         THEN errorResponse(502, error.code, "Model returned invalid JSON", requestId)
         ELSE errorResponse(502, error.code,
                            IF error.code = "upstream_timeout"
                            THEN "Estimator timed out. Please try again."
                            ELSE "Estimator is temporarily unavailable. Please try again.",
                            requestId)
    ELSE errorResponse(502, "upstream_unavailable",
                       "Estimator is temporarily unavailable. Please try again.", requestId)

\* The catch clause of the estimateCalcium handler: the response for a
\* failure of the orchestrator.
MapEstimateFailure(error, requestId) ==
    IF isEstimateError(error)
    THEN IF error.code = "model_invalid_response"
         THEN errorResponse(502, error.code, "Model returned invalid JSON", requestId)
         ELSE errorResponse(IF error.code = "upstream_timeout" THEN 504 ELSE 502, error.code,
                            IF error.code = "upstream_timeout"
                            THEN "Estimator timed out. Please try again."
                            ELSE "Estimator is temporarily unavailable. Please try again.",
                            requestId)
    ELSE errorResponse(502, "upstream_unavailable",
                       "Estimator is temporarily unavailable. Please try again.", requestId)

\* Events the catch clause logs before it answers.
FailureEvents(error, requestId) ==
    IF isEstimateError(error) /\ error.code = "model_invalid_response"
    THEN << Event("estimate_openai_parse_failed",
                  [request_id |-> JStr(requestId), message |-> JStr(error.message)]) >>
    ELSE <<>>

\* { ...v }: the own members of an object (the results spread here are objects).
Spread(v) == IF v.t = "object" THEN v.o ELSE <<>>

\* v.length
LengthOf(v) ==
    CASE v.t = "string" -> JNum(Milli(Len(v.s), 0))
      [] v.t = "array"  -> JNum(Milli(Len(v.a), 0))
      [] OTHER          -> GetProp(v, "length")

\* The try block of the handler after estimateCalcium returned outcome: the
\* events it logs and the 200 response.
SuccessEvents(outcome, mode, requestId) ==
    LET rawTextLength == IF Truthy(outcome.rawText) THEN LengthOf(outcome.rawText) ELSE JNum(0)
        summary == [ request_id |-> JStr(requestId),
                     calcium_mg |-> GetProp(outcome.result, "calcium_mg"),
                     confidence_label |-> GetProp(outcome.result, "confidence_label") ]
        full == PutMember(summary, "confidence", GetProp(outcome.result, "confidence"))
    IN  ( IF mode = "openai"
          THEN << Event("estimate_openai_raw_text_present",
                        [ request_id |-> JStr(requestId),
                          present |-> JBool(rawTextLength.t = "number" /\ rawTextLength.n > 0),
                          length |-> rawTextLength ]),
                  Event("estimate_openai_parsed_result", full) >>
          ELSE <<>> )
        \o << Event("estimate_response_sent", full), Event("estimate_http_response", summary) >>

SuccessResponse(outcome, debugMode, model, requestId) ==
    LET base == PutMember(Spread(outcome.result), "follow_up_question", JNull) IN
    [ sent |-> TRUE, status |-> 200,
      jsonBody |-> IF debugMode
                   THEN PutMember(base, "debug",
                                  JObj([ model |-> JStr(model),
                                         latency_ms |-> JNum(Milli(outcome.latencyMs, 0)),
                                         request_id |-> JStr(requestId) ]))
                   ELSE base ]

-----------------------------------------------------------------------------
(* index.ts: the estimateCalcium handler, in the two parts its await makes *)

\* The handler once estimateCalcium has finished (step.state is returned or
\* threw): the events it logs and its response.
HandlerAfterEstimate(step, requestId, config, debugMode) ==
    LET mode == IF config.useMock THEN "mock" ELSE "openai" IN
    IF step.state = "returned"
    THEN [ events   |-> SuccessEvents(step.outcome, mode, requestId),
           response |-> SuccessResponse(step.outcome, debugMode, config.model, requestId) ]
    ELSE [ events   |-> FailureEvents(step.error, requestId),
           response |-> MapEstimateFailure(step.error, requestId) ]

\* The string array names as a logged value.
NamesValue(names) == JArr([i \in 1..Len(names) |-> JStr(names[i])])

\* logEnvSnapshot(context, snapshot, requestId)
logEnvSnapshot(snapshot, requestId) ==
    Event("env_snapshot", WithRequestId([snapshot |-> snapshot], requestId))

\* envReport.required.filter((item) => item.present).map((item) => item.name)
RECURSIVE PresentNames(_)
PresentNames(statuses) ==
    IF statuses = <<>> THEN <<>>
    ELSE ( IF Head(statuses).present THEN << Head(statuses).name >> ELSE <<>> )
         \o PresentNames(Tail(statuses))

\* What the handler logs on entry, before it looks at the headers.
EntryEvents(requestId, config, envReport) ==
    << Event("estimate_mode_config",
             WithRequestId([ use_mock |-> JBool(config.useMock),
                             has_openai_key |-> JBool(config.apiKeyPresent),
                             model |-> JStr(config.model),
                             prompt_version |-> JStr(config.promptVersion) ],
                           IF isNonEmptyString(requestId) THEN requestId ELSE Undefined)),
       logEnvSnapshot(envReport.snapshot, requestId) >>
    \o ( IF isNonEmptyString(requestId)
         THEN << Event("env_check", [ request_id |-> JStr(requestId),
                                      missing_required |-> NamesValue(envReport.missing_required),
                                      present_required |-> NamesValue(PresentNames(envReport.required)) ]) >>
         ELSE <<>> )

\* What the handler logs once the headers are accepted.
ReceivedEvents(deviceInstallId, requestId, appVersion, derivedConfig, hasKey) ==
    << Event("estimate_config",
             [ request_id |-> JStr(requestId),
               has_openai_key |-> JBool(hasKey),
               openai_model |-> JStr(derivedConfig.openaiModel),
               use_mock_estimate |-> JBool(derivedConfig.useMockEstimate),
               estimation_enabled |-> JBool(derivedConfig.estimationEnabled),
               lockout_active |-> JBool(derivedConfig.lockoutActive),
               rate_limit_enabled |-> JBool(derivedConfig.rateLimitEnabled),
               circuit_breaker_enabled |-> JBool(derivedConfig.circuitBreakerEnabled) ]),
       Event("estimate_request_received",
             [ request_id |-> JStr(requestId),
               device_install_id_hash |->
                   JStr(hashDeviceInstallId(deviceInstallId, derivedConfig.deviceHashSalt)),
               app_version |-> JStr(appVersion),
               rate_limit_enabled |-> JBool(derivedConfig.rateLimitEnabled),
               circuit_breaker_enabled |-> JBool(derivedConfig.circuitBreakerEnabled) ]) >>

\* A mistaken header check that forgets x-app-version.
HeadersMissingIgnoringAppVersion(deviceInstallId, requestId, appVersion) ==
    \/ ~isNonEmptyString(deviceInstallId)
    \/ ~isNonEmptyString(requestId)

\* The header check of the handler: one of the three headers is absent or blank.
HeadersMissing(deviceInstallId, requestId, appVersion) ==
    \/ ~isNonEmptyString(deviceInstallId)
    \/ ~isNonEmptyString(requestId)
    \/ ~isNonEmptyString(appVersion)

\* The checks of the handler in their order: the stage at which it answers
\* and its answer, or the stage "estimate" when it goes on to estimateCalcium.
HandlerChecks(deviceInstallId, requestId, appVersion, derivedConfig, missing, body) ==
    IF HeadersMissing(deviceInstallId, requestId, appVersion)
    THEN [ stage |-> "headers",
           response |-> invalidRequest("Missing required headers.", requestId) ]
    ELSE IF derivedConfig.circuitBreakerEnabled /\ ~derivedConfig.estimationEnabled
    THEN [ stage |-> "disabled",
           response |-> temporarilyDisabled("Estimation temporarily unavailable.", requestId) ]
    ELSE IF derivedConfig.lockoutActive
    THEN [ stage |-> "lockout",
           response |-> temporarilyDisabled("Estimation temporarily unavailable.", requestId) ]
    ELSE IF derivedConfig.rateLimitEnabled /\ isRateLimited
    THEN [ stage |-> "rate_limit", response |-> rateLimited(requestId) ]
    ELSE IF Len(missing) > 0
    THEN [ stage |-> "missing_env",
           response |-> [ sent |-> TRUE, status |-> 502,
                          jsonBody |-> [ error |-> JStr("upstream_unavailable"),
                                         message |-> JStr("Estimator is not configured."),
                                         missing_env |-> NamesValue(missing),
                                         request_id |-> JStr(requestId) ] ] ]
    ELSE IF ~Truthy(body) \/ ~isEstimateCalciumRequest(body)
    THEN [ stage |-> "body", response |-> invalidRequest("Invalid JSON body.", requestId) ]
    ELSE [ stage |-> "estimate", response |-> NoResponse ]

\* The events logged by a handler run that got as far as stage.
EventsUpTo(stage, entry, received, requestId, config, missing) ==
    entry
    \o ( IF stage # "headers" THEN received ELSE <<>> )
    \o ( IF stage = "missing_env"
         THEN << Event("estimate_blocked_missing_env",
                       [ request_id |-> JStr(requestId),
                         missing_required |-> NamesValue(missing) ]) >>
         ELSE <<>> )
    \o ( IF stage = "estimate"
         THEN << Event("estimate_mode_select",
                       [ request_id |-> JStr(requestId),
                         mode |-> JStr(IF config.useMock THEN "mock" ELSE "openai"),
                         has_openai_key |-> JBool(config.apiKeyPresent),
                         model |-> JStr(config.model) ]) >>
         ELSE <<>> )

HandlerBeforeWith(req, e, requestId, derivedConfig, config, missing, body, checks) ==
    [ answered  |-> checks.stage # "estimate",
      stage     |-> checks.stage,
      events    |-> EventsUpTo(checks.stage,
                               EntryEvents(requestId, config, buildEnvReport(derivedConfig, e)),
                               IF checks.stage = "headers" THEN <<>>
                               ELSE ReceivedEvents(getHeader(req, "x-device-install-id"), requestId,
                                                   getHeader(req, "x-app-version"), derivedConfig,
                                                   TruthyStr(e["OPENAI_API_KEY"])),
                               requestId, config, missing),
      body      |-> IF checks.stage = "estimate" THEN body ELSE JNull,
      response  |-> checks.response,
      requestId |-> requestId,
      config    |-> config,
      debugMode |-> isDebugMode(req, e) ]

HandlerBeforeConfigured(req, e, requestId, derivedConfig, config, missing, body) ==
    HandlerBeforeWith(req, e, requestId, derivedConfig, config, missing, body,
                      HandlerChecks(getHeader(req, "x-device-install-id"), requestId,
                                    getHeader(req, "x-app-version"), derivedConfig, missing, body))

HandlerBeforeDerived(req, e, derivedConfig) ==
    HandlerBeforeConfigured(req, e, getHeader(req, "x-request-id"), derivedConfig, getConfig(e),
                            missing_required(derivedConfig, e), parseJson(req))

\* The handler from its entry to its first answer or to the orchestrator:
\* the configuration it reads, the events it logs, and its response when it
\* answers before calling estimateCalcium.
HandlerBeforeEstimate(req, e) == HandlerBeforeDerived(req, e, getDerivedConfig(e))

\* The arguments the handler passes to estimateCalcium for a body that passed
\* the shape check.
AnswersOf(body) ==
    LET answers == GetProp(body, "answers") IN
    [ portion_size   |-> GetProp(answers, "portion_size").s,
      contains_dairy |-> GetProp(answers, "contains_dairy").s,
      contains_tofu_or_small_fish_bones |-> GetProp(answers, "contains_tofu_or_small_fish_bones").s ]

-----------------------------------------------------------------------------
(* index.ts: the status and diagnosticsEnv handlers *)

\* The status handler.
statusHandler(derivedConfig, envReport) ==
    [ events |-> << logEnvSnapshot(envReport.snapshot, Undefined),
                    Event("status_check",
                          [ estimation_enabled |-> JBool(derivedConfig.estimationEnabled),
                            lockout_active |-> JBool(derivedConfig.lockoutActive),
                            rate_limit_enabled |-> JBool(derivedConfig.rateLimitEnabled),
                            circuit_breaker_enabled |-> JBool(derivedConfig.circuitBreakerEnabled) ]) >>,
      response |-> [ sent |-> TRUE, status |-> 200,
                     jsonBody |->
                       [ estimation_enabled |-> JBool(derivedConfig.estimationEnabled
                                                      /\ ~derivedConfig.lockoutActive),
                         lockout_active |-> JBool(derivedConfig.lockoutActive),
                         message |-> JStr(IF derivedConfig.estimationEnabled
                                             /\ ~derivedConfig.lockoutActive
                                          THEN "OK" ELSE "Estimation temporarily unavailable.") ] ] ]

\* A mistaken admin check that accepts any x-admin-key header.
isAdminWithAnyKey(adminKey, derivedConfig) == adminKey # Undefined

\* const isAdmin = adminKey === derivedConfig.adminKey
isAdmin(adminKey, derivedConfig) == adminKey = derivedConfig.adminKey

\* envReport.required.map((item) => ({ name: item.name, present: item.present }))
Minimal(statuses) ==
    [ i \in 1..Len(statuses) |-> [ name |-> statuses[i].name, present |-> statuses[i].present ] ]

\* The response body of diagnosticsEnv before the snapshot is added.  The
\* version, platform and clock of the process are named, not valued.
DiagnosticsBody(derivedConfig, envReport) ==
    [ required |-> Minimal(envReport.required),
      optional |-> Minimal(envReport.optional),
      missing_required |-> NamesValue(envReport.missing_required),
      derived |->
        [ estimation_enabled |-> JBool(derivedConfig.estimationEnabled),
          lockout_active |-> JBool(derivedConfig.lockoutActive),
          rate_limit_enabled |-> JBool(derivedConfig.rateLimitEnabled),
          circuit_breaker_enabled |-> JBool(derivedConfig.circuitBreakerEnabled),
          estimation_available |-> JBool(derivedConfig.estimationEnabled
                                         /\ ~derivedConfig.lockoutActive),
          use_mock_estimate |-> JBool(derivedConfig.useMockEstimate),
          openai_model |-> JStr(derivedConfig.openaiModel),
          openai_base_url |-> IF derivedConfig.openaiBaseUrl = Undefined THEN JNull
                              ELSE JStr(derivedConfig.openaiBaseUrl),
          openai_timeout_ms |-> JNum(Milli(derivedConfig.openaiTimeoutMs, 0)),
          estimator_prompt_version |-> JStr(derivedConfig.estimatorPromptVersion),
          estimator_prompt_present |-> JBool(TruthyStr(derivedConfig.estimatorPrompt)) ],
      node_version |-> JStr("process.version"),
      platform |-> JStr("process.platform"),
      timestamp_utc |-> JStr("new Date().toISOString()") ]

\* The diagnosticsEnv handler.
diagnosticsEnvHandler(req, derivedConfig, envReport) ==
    [ events |-> << logEnvSnapshot(envReport.snapshot, getHeader(req, "x-request-id")) >>,
      response |-> [ sent |-> TRUE, status |-> 200,
                     jsonBody |-> IF isAdmin(getHeader(req, "x-admin-key"), derivedConfig)
                                  THEN PutMember(DiagnosticsBody(derivedConfig, envReport),
                                                 "snapshot", envReport.snapshot)
                                  ELSE DiagnosticsBody(derivedConfig, envReport) ] ]

-----------------------------------------------------------------------------
(* The request being served, at rest *)

\* No request in progress: everything but the environment is at rest.
AtRest ==
    /\ pc = "idle"
    /\ request = NoRequest
    /\ now = 0
    /\ call = NoCall
    /\ orch = NoOrch
    /\ logs = <<>>
    /\ response = NoResponse

-----------------------------------------------------------------------------
(* Inputs: environments, requests, upstream behaviour *)

Quote(str) == "\"" \o str \o "\""

\* The environments a request can be served in: every setting of the flags,
\* the mock toggles and the key, with a timeout and a prompt override, or
\* else with an admin key and a production NODE_ENV.
Environments ==
  { e \in
    [ ESTIMATION_ENABLED         : {Undefined, "false"},
      LOCKOUT_ACTIVE             : {Undefined, "true"},
      RATE_LIMIT_ENABLED         : {Undefined},
      CIRCUIT_BREAKER_ENABLED    : {Undefined, "false"},
      ADMIN_KEY                  : {Undefined, "s3cret"},
      DEVICE_HASH_SALT           : {Undefined},
      LOCALIZATION_PACK_URL_BASE : {Undefined},
      USE_MOCK_ESTIMATE          : {Undefined, "true"},
      ESTIMATE_MODE              : {Undefined, "Mock"},
      OPENAI_API_KEY             : {Undefined, "  ", "sk-live"},
      OPENAI_MODEL               : {Undefined},
      OPENAI_BASE_URL            : {Undefined},
      OPENAI_TIMEOUT_MS          : {Undefined, "30000", "-5"},
      ESTIMATOR_PROMPT_VERSION   : {Undefined},
      ESTIMATOR_PROMPT           : {Undefined, " Custom prompt "},
      NODE_ENV                   : {Undefined, "production"} ] :
    (e.ADMIN_KEY # Undefined \/ e.NODE_ENV # Undefined) =>
        (e.OPENAI_TIMEOUT_MS = Undefined /\ e.ESTIMATOR_PROMPT = Undefined) }

\* The text of a request body with the given fields.
BodyText(image, mime, portion, dairy, tofu, locale, uiVersion) ==
    << "{", Quote("image_base64"), ":", Quote(image), ",",
            Quote("image_mime"), ":", Quote(mime), ",",
            Quote("answers"), ":",
                "{", Quote("portion_size"), ":", Quote(portion), ",",
                     Quote("contains_dairy"), ":", Quote(dairy), ",",
                     Quote("contains_tofu_or_small_fish_bones"), ":", Quote(tofu), "}", ",",
            Quote("locale"), ":", Quote(locale), ",",
            Quote("ui_version"), ":", Quote(uiVersion), "}" >>

Bodies ==
    { BodyText("QUJDRA==", "image/jpeg", "medium", "yes", "not_sure", "en", "1"),
      BodyText("QUJDRA==", "image/jpeg", "large", "no", "no", "es", "1"),
      BodyText("QUJDRA==", "image/jpeg", "medium", "yes", "not_sure", "fr", "1"),
      << "not", "json" >> }

\* A request to route with the given headers (the others absent) and body.
RequestTo(route, device, rid, version, adminKey, body) ==
    [ present |-> TRUE,
      route   |-> route,
      headers |-> [ h \in {"x-device-install-id", "x-request-id", "x-app-version", "x-debug",
                            "x-admin-key"} |->
                      CASE h = "x-device-install-id" -> device
                        [] h = "x-request-id"        -> rid
                        [] h = "x-app-version"       -> version
                        [] h = "x-admin-key"         -> adminKey
                        [] OTHER                     -> Undefined ],
      body |-> body ]

\* The POST /estimateCalcium requests: every body with the three headers,
\* and a well-formed and a malformed body with every other setting of them.
Requests ==
    { RequestTo("estimateCalcium", "device-1", "req-1", "1.0.0", Undefined, body) : body \in Bodies }
    \cup
    { RequestTo("estimateCalcium", device, rid, version, Undefined, body) :
      device \in {Undefined, "device-1"}, rid \in {Undefined, " ", "req-1"},
      version \in {Undefined, "1.0.0"},
      body \in { BodyText("QUJDRA==", "image/jpeg", "medium", "yes", "not_sure", "en", "1"),
                 << "not", "json" >> } }

\* The GET /status request and the GET /diagnostics/env requests: without an
\* admin key, with the default one, with the one some environments configure.
StatusRequests ==
    { RequestTo("status", device, Undefined, Undefined, Undefined, <<>>) :
      device \in {Undefined, "device-1"} }
DiagnosticsRequests ==
    { RequestTo("diagnostics/env", Undefined, rid, Undefined, adminKey, <<>>) :
      rid \in {Undefined, "req-1"}, adminKey \in {Undefined, "changeme", "s3cret"} }
    \cup { RequestTo("diagnostics/env", "device-1", "req-1", Undefined, "s3cret", <<>>) }

\* The text of an estimate as the response schema shapes it.
EstimateText(calcium, confidence, label) ==
    << "{", Quote("calcium_mg"), ":", calcium, ",",
            Quote("confidence"), ":", confidence, ",",
            Quote("confidence_label"), ":", Quote(label), ",",
            Quote("explanation_short"), ":", Quote("Yogurt bowl."), ",",
            Quote("warnings"), ":", "[", "]", "}" >>

\* An estimate wrapped in an outer object that carries result and rawText
\* members beside its own calcium_mg.
WrappedText ==
    << "{", Quote("calcium_mg"), ":", "250", ",",
            Quote("result"), ":", "{", Quote("calcium_mg"), ":", "120", ",",
                                       Quote("confidence"), ":", "0.3", ",",
                                       Quote("confidence_label"), ":", Quote("low"), "}", ",",
            Quote("rawText"), ":", Quote("raw"), "}" >>

\* The texts a model answers with.
PayloadTexts ==
    { EstimateText("250", "0.8", "high"),
      EstimateText(Quote("250"), "0.8", "high"),
      WrappedText,
      << "{", "}" >>,
      << "42" >>,
      << "not", "json" >> }

ContentItem(type, textIsString, text) == [type |-> type, textIsString |-> textIsString, text |-> text]
OutputItem(hasContent, content) == [hasContent |-> hasContent, content |-> content]
UpstreamResponse(hasOutput, outputText, output) ==
    [hasOutput |-> hasOutput, output_text |-> outputText, output |-> output]

\* What client.responses.create can resolve with: the text in the flattened
\* output_text field, the text in a content item behind items without text,
\* a response without text, a response with an empty text, a streamed response.
UpstreamResponses ==
    { UpstreamResponse(TRUE, text, <<>>) : text \in PayloadTexts }
    \cup
    { UpstreamResponse(TRUE, <<>>,
          << OutputItem(FALSE, <<>>),
             OutputItem(TRUE, << ContentItem("refusal", FALSE, <<>>),
                                 ContentItem("output_text", TRUE, text) >>) >>) :
        text \in {EstimateText("250", "0.8", "high"), <<>>} }
    \cup
    { UpstreamResponse(TRUE, <<>>, << OutputItem(TRUE, << ContentItem("refusal", TRUE, << "no" >>) >>) >>),
      UpstreamResponse(FALSE, <<>>, <<>>) }

NoUpstreamResponse == UpstreamResponse(FALSE, <<>>, <<>>)

\* The error a failed transport rejects with, and the one an aborted call
\* rejects with.
TransportError == OtherError("Error", "Connection error.")
AbortError == OtherError("AbortError", "Request was aborted.")

\* A tick of the clock: a third of the default timeout.
TickMs == DEFAULT_TIMEOUT_MS \div 3

-----------------------------------------------------------------------------
(* The state machine of one request *)

Init ==
    /\ AtRest
    /\ env \in Environments
    /\ pure = NoPure

\* Where the handler stands once estimateCalcium has taken a step: at the
\* await of the upstream call, or at its response.
AfterStep(step, requestId, config, debugMode) ==
    IF step.state = "awaiting"
    THEN [ pc |-> "awaiting", events |-> step.events, response |-> NoResponse ]
    ELSE LET after == HandlerAfterEstimate(step, requestId, config, debugMode) IN
         [ pc |-> "responded", events |-> step.events \o after.events, response |-> after.response ]

\* estimateFromImageAndAnswers up to its await: the abort timer is armed and
\* the request is sent with the controller's signal.
IssueCall(args) ==
    [ state |-> "pending", timer |-> "armed", aborted |-> FALSE, startedAt |-> now,
      settledBy |-> "none", settledAt |-> 0, resp |-> NoUpstreamResponse, args |-> args ]

\* The first step of estimateCalcium for the request that passed the checks.
StartStep(before) ==
    estimateCalciumStart(GetProp(before.body, "image_base64").s,
                         AnswersOf(before.body),
                         GetProp(before.body, "locale").s,
                         before.requestId, before.config)

Invoked(before, step, after) ==
    /\ pc' = after.pc
    /\ logs' = before.events \o after.events
    /\ response' = after.response
    /\ orch' = [ invoked |-> TRUE, config |-> before.config, debugMode |-> before.debugMode,
                 requestId |-> before.requestId, state |-> step.state,
                 outcome |-> step.outcome, error |-> step.error,
                 clientSettled |-> FALSE, client |-> Return(JUndefined),
                 upstreamCalls |-> IF step.state = "awaiting" THEN 1 ELSE 0 ]
    /\ call' = IF step.state = "awaiting" THEN IssueCall(step.args) ELSE NoCall

InvokedStep(before, step) ==
    Invoked(before, step, AfterStep(step, before.requestId, before.config, before.debugMode))

Received(req, before) ==
    /\ request' = req
    /\ IF before.answered
       THEN /\ pc' = "responded"
            /\ logs' = before.events
            /\ response' = before.response
            /\ UNCHANGED <<call, orch>>
       ELSE InvokedStep(before, StartStep(before))

\* POST /estimateCalcium arrives: the handler runs to its response or to the
\* await of the upstream call.
ReceiveEstimateCalcium ==
    /\ pc = "idle"
    /\ pure = NoPure
    /\ \E req \in Requests : Received(req, HandlerBeforeEstimate(req, env))
    /\ UNCHANGED <<env, now, pure>>

\* A request that its handler answers without awaiting anything.
Answered(req, handled) ==
    /\ request' = req
    /\ pc' = "responded"
    /\ logs' = handled.events
    /\ response' = handled.response
    /\ UNCHANGED <<env, now, call, orch, pure>>

\* GET /status arrives and is answered.
ReceiveStatus ==
    /\ pc = "idle"
    /\ pure = NoPure
    /\ \E req \in StatusRequests :
          Answered(req, statusHandler(getDerivedConfig(env),
                                      buildEnvReport(getDerivedConfig(env), env)))

\* GET /diagnostics/env arrives and is answered.
ReceiveDiagnosticsEnv ==
    /\ pc = "idle"
    /\ pure = NoPure
    /\ \E req \in DiagnosticsRequests :
          Answered(req, diagnosticsEnvHandler(req, getDerivedConfig(env),
                                              buildEnvReport(getDerivedConfig(env), env)))

\* Due(c): the timer of call c has run for timeoutMs.
Due(c) == (now - c.startedAt) * TickMs >= c.args.timeoutMs

\* Time passes while the upstream call is pending; a due timer fires before
\* more time passes.
Tick ==
    /\ pc = "awaiting"
    /\ call.state = "pending"
    /\ now < MaxTicks
    /\ ~(call.timer = "armed" /\ Due(call))
    /\ now' = now + 1
    /\ UNCHANGED <<env, pc, request, call, orch, logs, response, pure>>

\* The timeout callback runs: controller.abort().
TimerFires ==
    /\ pc = "awaiting"
    /\ call.state = "pending"
    /\ call.timer = "armed"
    /\ Due(call)
    /\ call' = [call EXCEPT !.timer = "fired", !.aborted = TRUE]
    /\ UNCHANGED <<env, pc, request, now, orch, logs, response, pure>>

\* A mistaken settlement that leaves out the clearTimeout of the finally block.
SettledLeavingTimerArmed(settlement, how, clientResult, step, after) ==
    /\ pc' = after.pc
    /\ logs' = logs \o after.events
    /\ response' = after.response
    /\ orch' = [ orch EXCEPT !.state = step.state, !.outcome = step.outcome,
                             !.error = step.error, !.clientSettled = TRUE,
                             !.client = clientResult ]
    /\ call' = [ call EXCEPT !.state = "settled", !.settledBy = how, !.settledAt = now,
                             !.resp = settlement.resp ]

\* The request-scoped state once the upstream call has settled by `how` with
\* clientResult as the outcome of estimateFromImageAndAnswers, step as that of
\* estimateCalcium and after as that of the handler.
Settled(settlement, how, clientResult, step, after) ==
    /\ pc' = after.pc
    /\ logs' = logs \o after.events
    /\ response' = after.response
    /\ orch' = [ orch EXCEPT !.state = step.state, !.outcome = step.outcome,
                             !.error = step.error, !.clientSettled = TRUE,
                             !.client = clientResult ]
    /\ call' = [ call EXCEPT !.state = "settled", !.settledBy = how, !.settledAt = now,
                             !.resp = settlement.resp,
                             !.timer = IF @ = "armed" THEN "cleared" ELSE @ ]

SettledStep(settlement, how, clientResult, step) ==
    Settled(settlement, how, clientResult, step,
            AfterStep(step, orch.requestId, orch.config, orch.debugMode))

SettledClient(settlement, how, clientResult) ==
    SettledStep(settlement, how, clientResult,
                estimateCalciumSettle(clientResult, (now - call.startedAt) * TickMs, orch.requestId))

\* A mistaken continuation that calls the upstream a second time when the
\* model's answer is invalid.
RetriedClient(settlement, how, clientResult) ==
    IF clientResult.threw /\ clientResult.error.code = "model_invalid_response"
       /\ orch.upstreamCalls < 2
    THEN /\ call' = IssueCall(call.args)
         /\ orch' = [orch EXCEPT !.upstreamCalls = @ + 1]
         /\ UNCHANGED <<pc, logs, response>>
    ELSE SettledClient(settlement, how, clientResult)

SettleRetryingInvalidResponse(settlement, how) ==
    /\ pc = "awaiting"
    /\ call.state = "pending"
    /\ RetriedClient(settlement, how, estimateFromImageAndAnswersSettle(settlement))
    /\ UNCHANGED <<env, request, now, pure>>

\* The awaited upstream call settles: estimateFromImageAndAnswers classifies
\* the outcome and clears the timer, estimateCalcium logs and returns or
\* rethrows, and the handler answers.
Settle(settlement, how) ==
    /\ pc = "awaiting"
    /\ call.state = "pending"
    /\ SettledClient(settlement, how, estimateFromImageAndAnswersSettle(settlement))
    /\ UNCHANGED <<env, request, now, pure>>

\* The provider answers before the call is aborted.
UpstreamResolves ==
    /\ call.state = "pending" /\ ~call.aborted
    /\ \E resp \in UpstreamResponses :
          Settle([resolved |-> TRUE, resp |-> resp, error |-> NoError], "resolved")

\* The transport fails before the call is aborted.
UpstreamRejects ==
    /\ call.state = "pending" /\ ~call.aborted
    /\ Settle([resolved |-> FALSE, resp |-> NoUpstreamResponse, error |-> TransportError], "rejected")

\* The call, aborted through its signal, rejects with an AbortError.
UpstreamAborts ==
    /\ call.state = "pending" /\ call.aborted
    /\ Settle([resolved |-> FALSE, resp |-> NoUpstreamResponse, error |-> AbortError], "aborted")

\* The response is sent and the invocation ends; its state is discarded.
Complete ==
    /\ pc = "responded"
    /\ pc' = "idle"
    /\ request' = NoRequest
    /\ now' = 0
    /\ call' = NoCall
    /\ orch' = NoOrch
    /\ logs' = <<>>
    /\ response' = NoResponse
    /\ UNCHANGED <<env, pure>>

\* The environment changes between requests, one variable at a time.
SetEnv ==
    /\ pc = "idle"
    /\ pure = NoPure
    /\ \E e \in Environments :
          /\ Cardinality({name \in DOMAIN env : e[name] # env[name]}) = 1
          /\ env' = e
    /\ UNCHANGED <<pc, request, now, call, orch, logs, response, pure>>

Next ==
    \/ ReceiveEstimateCalcium
    \/ ReceiveStatus
    \/ ReceiveDiagnosticsEnv
    \/ Tick
    \/ TimerFires
    \/ UpstreamResolves
    \/ UpstreamRejects
    \/ UpstreamAborts
    \/ Complete
    \/ SetEnv

Spec == Init /\ [][Next]_vars

-----------------------------------------------------------------------------
(* Claims about the estimation pipeline, checked under Spec *)

\* How many times the event was logged for the request being served.
CountEvents(name) == Cardinality({i \in 1..Len(logs) : logs[i].event = name})

\* The characters of a text: its lexemes one after the other.
RECURSIVE JoinText(_)
JoinText(text) == IF text = <<>> THEN "" ELSE Head(text) \o JoinText(Tail(text))

\* The text is one JSON value, an object whose calcium_mg is a number.
IsObjectWithNumericCalcium(text) ==
    LET parsed == JSONParse(text) IN
    /\ parsed.ok
    /\ parsed.val.t = "object"
    /\ "calcium_mg" \in DOMAIN parsed.val.o
    /\ parsed.val.o["calcium_mg"].t = "number"

\* estimateCalcium has been invoked with a live configuration: mock mode off
\* and an API key present.
LiveInvocation == orch.invoked /\ ~orch.config.useMock /\ TruthyStr(orch.config.apiKey)

\* C1: when config.useMock is true, estimateCalcium returns the fixed mock
\* result (calcium_mg 300, confidence 0.6, confidence_label "medium", no
\* warnings) with mode "mock", latencyMs 0 and rawText null, and the upstream
\* client is never called, whether or not an API key is present.
C1_MockReturnsFixedResult ==
    (orch.invoked /\ orch.config.useMock) =>
        /\ orch.state = "returned"
        /\ GetProp(orch.outcome.result, "calcium_mg") = JNum(Milli(300, 0))
        /\ GetProp(orch.outcome.result, "confidence") = JNum(Milli(0, 600))
        /\ GetProp(orch.outcome.result, "confidence_label") = JStr("medium")
        /\ GetProp(orch.outcome.result, "warnings") = JArr(<<>>)
        /\ orch.outcome.mode = "mock"
        /\ orch.outcome.latencyMs = 0
        /\ orch.outcome.rawText = JNull
        /\ orch.upstreamCalls = 0
        /\ call = NoCall

\* A mock invocation without an API key has returned and has been answered.
C1_Witness ==
    /\ pc = "responded"
    /\ orch.invoked
    /\ orch.config.useMock
    /\ ~orch.config.apiKeyPresent
    /\ orch.outcome.mode = "mock"
    /\ response.status = 200

\* C2: when config.useMock is false and config.apiKey is absent,
\* estimateCalcium fails with the EstimateError upstream_unavailable and the
\* upstream client is called zero times.
C2_MissingKeyFailsBeforeUpstream ==
    (orch.invoked /\ ~orch.config.useMock /\ ~TruthyStr(orch.config.apiKey)) =>
        /\ orch.state = "threw"
        /\ isEstimateError(orch.error)
        /\ orch.error.code = "upstream_unavailable"
        /\ orch.upstreamCalls = 0
        /\ call = NoCall

\* A live-mode invocation without an API key has failed and has been answered.
C2_Witness ==
    /\ pc = "responded"
    /\ orch.invoked
    /\ ~orch.config.useMock
    /\ orch.config.apiKey = Undefined
    /\ orch.state = "threw"
    /\ orch.error.message = "OpenAI API key missing."

C4_OnlyEstimateErrorsEscape ==
    (orch.invoked /\ orch.state = "threw") =>
        /\ isEstimateError(orch.error)
        /\ orch.error.code \in EstimateErrorCodes

\* C5: when the upstream call succeeds and its text parses to an object with
\* a numeric calcium_mg, estimateCalcium returns an outcome with mode
\* "openai" whose result is the parsed estimate and whose rawText is the text
\* extracted from the upstream response.
C5_SuccessReturnsParsedEstimate ==
    LET text == getOutputText(call.resp).text IN
    ( /\ orch.invoked /\ orch.clientSettled
      /\ call.settledBy = "resolved"
      /\ call.resp.hasOutput
      /\ IsObjectWithNumericCalcium(text) ) =>
        /\ orch.state = "returned"
        /\ orch.outcome.mode = "openai"
        /\ \A field \in {"calcium_mg", "confidence", "confidence_label"} :
              GetProp(orch.outcome.result, field) = GetProp(JSONParse(text).val, field)
        /\ orch.outcome.rawText = JStr(JoinText(text))

C10_FailureStatusMapping ==
    (pc = "responded" /\ orch.invoked /\ orch.state = "threw") =>
        /\ response.sent
        /\ response.status \notin 200..499
        /\ IF isEstimateError(orch.error)
           THEN /\ response.jsonBody.error = JStr(orch.error.code)
                /\ orch.error.code = "upstream_timeout" => response.status = 504
                /\ orch.error.code = "upstream_unavailable" => response.status = 502
                /\ orch.error.code = "model_invalid_response" => response.status = 502
           ELSE /\ response.status = 502
                /\ response.jsonBody.error = JStr("upstream_unavailable")

\* The handler has answered an upstream timeout with 504.
C10_Witness ==
    /\ pc = "responded"
    /\ orch.invoked
    /\ orch.state = "threw"
    /\ isEstimateError(orch.error)
    /\ orch.error.code = "upstream_timeout"
    /\ response.status = 504
    /\ response.jsonBody.error = JStr("upstream_timeout")

\* C36: in every live invocation of estimateCalcium the event
\* estimate_openai_request_start is logged before the upstream call is made,
\* and estimate_openai_request_done is logged exactly once after the call has
\* settled, whether estimateCalcium returns or throws, and not before.
C36_StartPrecedesAndDoneOnce ==
    LiveInvocation =>
        /\ call # NoCall => CountEvents("estimate_openai_request_start") = 1
        /\ ~orch.clientSettled => CountEvents("estimate_openai_request_done") = 0
        /\ orch.state \in {"returned", "threw"} =>
              CountEvents("estimate_openai_request_done") = 1

-----------------------------------------------------------------------------
(* Claims about the HTTP handlers, checked under Spec *)

\* A POST /estimateCalcium request has been received.
EstimateRequest == request.present /\ request.route = "estimateCalcium"

\* The three required headers of the received request are non-empty strings.
ValidHeaders ==
    /\ isNonEmptyString(getHeader(request, "x-device-install-id"))
    /\ isNonEmptyString(getHeader(request, "x-request-id"))
    /\ isNonEmptyString(getHeader(request, "x-app-version"))

\* The body of the received request is JSON of the EstimateCalciumRequest shape.
ValidBody == Truthy(parseJson(request)) /\ isEstimateCalciumRequest(parseJson(request))

\* One of the two gates of the estimate handler applies in the environment.
GateApplies ==
    \/ getDerivedConfig(env).circuitBreakerEnabled /\ ~getDerivedConfig(env).estimationEnabled
    \/ getDerivedConfig(env).lockoutActive

\* The response has the status and the error code.
Answers(status, error) ==
    /\ response.sent
    /\ response.status = status
    /\ "error" \in DOMAIN response.jsonBody
    /\ response.jsonBody.error = JStr(error)

\* C11: a POST /estimateCalcium request in which one of x-device-install-id,
\* x-request-id, x-app-version is missing or empty is answered with 400 and
\* invalid_request whatever the gates, the configuration and the body are,
\* and estimateCalcium is never invoked for it.
C11_MissingHeaderRejected ==
    (EstimateRequest /\ ~ValidHeaders) =>
        /\ pc = "responded"
        /\ Answers(400, "invalid_request")
        /\ ~orch.invoked
        /\ call = NoCall

\* A request without x-app-version, with a valid body, received while the
\* lockout is active, has been answered with 400.
C11_Witness ==
    /\ pc = "responded"
    /\ EstimateRequest
    /\ getHeader(request, "x-app-version") = Undefined
    /\ isNonEmptyString(getHeader(request, "x-device-install-id"))
    /\ isNonEmptyString(getHeader(request, "x-request-id"))
    /\ ValidBody
    /\ getDerivedConfig(env).lockoutActive
    /\ response.status = 400

\* C12: with config.useMock true, a POST /estimateCalcium request with the
\* three headers and a valid body, received while no gate applies, is
\* answered with 200 and calcium_mg 300, also when no API key is configured.
C12_MockModeServesFixedEstimate ==
    ( /\ pc = "responded"
      /\ EstimateRequest
      /\ ValidHeaders
      /\ ValidBody
      /\ ~GateApplies
      /\ getConfig(env).useMock ) =>
        /\ response.status = 200
        /\ "calcium_mg" \in DOMAIN response.jsonBody
        /\ response.jsonBody.calcium_mg = JNum(Milli(300, 0))

\* A valid POST /estimateCalcium request has been received in live mode
\* (config.useMock false) while no API key is configured.
LiveRequestWithoutKey ==
    /\ EstimateRequest
    /\ ValidHeaders
    /\ ValidBody
    /\ ~getConfig(env).useMock
    /\ ~isPresent(env["OPENAI_API_KEY"])

\* The response is a configuration error: 500 server_not_configured or 502
\* upstream_unavailable.
ConfigurationError ==
    \/ Answers(500, "server_not_configured")
    \/ Answers(502, "upstream_unavailable")

\* C13 as stated: in live mode without an API key a request with valid
\* headers and body is answered with a configuration error and no upstream
\* call is made, for every combination of the gating flags.
C13_NoKeyAlwaysConfigurationError ==
    LiveRequestWithoutKey =>
        /\ pc = "responded"
        /\ ConfigurationError
        /\ call = NoCall

\* C13: in live mode without an API key a request with valid headers and body
\* is answered with 503 temporarily_disabled when a gate applies and with a
\* configuration error otherwise, and no upstream call is made in either case.
C13_NoKeyGateThenConfigurationError ==
    LiveRequestWithoutKey =>
        /\ pc = "responded"
        /\ IF GateApplies
           THEN Answers(503, "temporarily_disabled")
           ELSE ConfigurationError
        /\ call = NoCall

\* A live-mode request with a blank API key, which the environment report does
\* not require because USE_MOCK_ESTIMATE is set, has been refused by
\* estimateCalcium itself and answered with 502.
C13_Witness ==
    /\ pc = "responded"
    /\ LiveRequestWithoutKey
    /\ ~GateApplies
    /\ env["OPENAI_API_KEY"] # Undefined
    /\ getDerivedConfig(env).useMockEstimate
    /\ orch.invoked
    /\ response.status = 502

\* GET /status, asked in the present environment, reports estimation_enabled
\* false.
StatusReportsDisabled ==
    statusHandler(getDerivedConfig(env),
                  buildEnvReport(getDerivedConfig(env), env)).response.jsonBody.estimation_enabled
        = JBool(FALSE)

\* C14: when estimation is disabled (ESTIMATION_ENABLED=false) or the lockout
\* is active, which is when GET /status reports estimation_enabled false, a
\* POST /estimateCalcium request with valid headers is answered with 503 and
\* temporarily_disabled, estimateCalcium is not invoked and no estimate is
\* served.
C14_DisabledMeansNoEstimate ==
    ( /\ pc = "responded"
      /\ EstimateRequest
      /\ ValidHeaders
      /\ \/ ~getDerivedConfig(env).estimationEnabled
         \/ getDerivedConfig(env).lockoutActive
         \/ StatusReportsDisabled ) =>
        /\ Answers(503, "temporarily_disabled")
        /\ ~orch.invoked
        /\ "calcium_mg" \notin DOMAIN response.jsonBody

\* C15: when no gate applies (estimation enabled, no lockout) and the headers
\* are valid, a body that is not JSON or not of the EstimateCalciumRequest
\* shape is answered with 400 and invalid_request whatever the configuration
\* is, and causes no upstream work.
C15_InvalidBodyAlwaysRejected ==
    ( /\ pc = "responded"
      /\ EstimateRequest
      /\ ValidHeaders
      /\ getDerivedConfig(env).estimationEnabled
      /\ ~getDerivedConfig(env).lockoutActive
      /\ ~ValidBody ) =>
        /\ Answers(400, "invalid_request")
        /\ ~orch.invoked
        /\ call = NoCall

HexDigits == {"0", "1", "2", "3", "4", "5", "6", "7", "8", "9", "a", "b", "c", "d", "e", "f"}

\* The string is a fingerprint: eight hex digits.
IsFingerprint(str) ==
    /\ Len(str) = Len("00000000")
    /\ \A i \in 1..Len(str) : SubSeq(str, i, i) \in HexDigits

\* The entry of a secret variable whose configured value is raw shows at most
\* a present flag, a length and a fingerprint, and the fingerprint is not the
\* value.
SecretEntryRedacted(entry, raw) ==
    /\ DOMAIN entry \subseteq {"present", "length", "sha256_8"}
    /\ entry.present \in BOOLEAN
    /\ entry.present =>
          /\ DOMAIN entry = {"present", "length", "sha256_8"}
          /\ entry.length = Len(raw)
          /\ IsFingerprint(entry.sha256_8)
          /\ entry.sha256_8 # raw

\* Every secret variable of the snapshot is redacted.
SnapshotRedacted(snapshot) ==
    \A name \in DOMAIN snapshot :
        isSecret(name) => SecretEntryRedacted(snapshot[name], env[name])

\* C18: for every secret variable the snapshot of buildEnvReport holds only a
\* present flag, a length and an eight-hex-digit fingerprint, never the
\* configured value; so neither an env_snapshot log event nor a response that
\* carries the snapshot contains a secret value.
C18_SnapshotRedactsSecrets ==
    /\ \A i \in 1..Len(logs) :
          logs[i].event = "env_snapshot" => SnapshotRedacted(logs[i].payload.snapshot)
    /\ (response.sent /\ "snapshot" \in DOMAIN response.jsonBody) =>
          SnapshotRedacted(response.jsonBody.snapshot)

\* The diagnostics handler has logged and returned to an admin the snapshot of
\* an environment in which the admin key and the API key are set.
C18_Witness ==
    /\ pc = "responded"
    /\ request.route = "diagnostics/env"
    /\ env["ADMIN_KEY"] = "s3cret"
    /\ env["OPENAI_API_KEY"] = "sk-live"
    /\ \E i \in 1..Len(logs) : logs[i].event = "env_snapshot"
    /\ "snapshot" \in DOMAIN response.jsonBody
    /\ response.jsonBody.snapshot["OPENAI_API_KEY"].present
    /\ response.jsonBody.snapshot["ADMIN_KEY"].present

\* The admin key the deployment is configured with: ADMIN_KEY, or its default.
ConfiguredAdminKey == IF env["ADMIN_KEY"] = Undefined THEN "changeme" ELSE env["ADMIN_KEY"]

\* C19: the response of GET /diagnostics/env includes the snapshot exactly
\* when the x-admin-key header equals the configured admin key; a request
\* without the header never receives it.
C19_SnapshotOnlyForAdmin ==
    (pc = "responded" /\ request.route = "diagnostics/env") =>
        /\ response.status = 200
        /\ "snapshot" \in DOMAIN response.jsonBody
              <=> getHeader(request, "x-admin-key") = ConfiguredAdminKey
        /\ getHeader(request, "x-admin-key") = Undefined =>
              "snapshot" \notin DOMAIN response.jsonBody

\* A request carrying the configured admin key has received the snapshot.
C19_Witness ==
    /\ pc = "responded"
    /\ request.route = "diagnostics/env"
    /\ env["ADMIN_KEY"] = "s3cret"
    /\ getHeader(request, "x-admin-key") = "s3cret"
    /\ "snapshot" \in DOMAIN response.jsonBody
    /\ "required" \in DOMAIN response.jsonBody

\* The body carries the request id, as its request_id or in its debug object.
CarriesRequestId(body, requestId) ==
    \/ "request_id" \in DOMAIN body /\ body.request_id = JStr(requestId)
    \/ "debug" \in DOMAIN body /\ GetProp(body.debug, "request_id") = JStr(requestId)

\* C20: every response of POST /estimateCalcium to a request with a non-empty
\* x-request-id contains that id in its body.
C20_ResponseCarriesRequestId ==
    ( /\ pc = "responded"
      /\ EstimateRequest
      /\ isNonEmptyString(getHeader(request, "x-request-id")) ) =>
        CarriesRequestId(response.jsonBody, getHeader(request, "x-request-id"))

\* needle occurs in str.
Occurs(needle, str) ==
    \E i \in 1..Len(str) :
        i + Len(needle) - 1 <= Len(str) /\ SubSeq(str, i, i + Len(needle) - 1) = needle

\* needle occurs in a string of the JavaScript value, at any depth.
RECURSIVE OccursInValue(_, _)
OccursInValue(needle, v) ==
    CASE v.t = "string" -> Occurs(needle, v.s)
      [] v.t = "array"  -> \E i \in 1..Len(v.a) : OccursInValue(needle, v.a[i])
      [] v.t = "object" -> \E k \in DOMAIN v.o : OccursInValue(needle, v.o[k])
      [] OTHER          -> FALSE

\* needle occurs in a value that the snapshot shows.
OccursInSnapshot(needle, snapshot) ==
    \E name \in DOMAIN snapshot :
        \/ "value" \in DOMAIN snapshot[name] /\ Occurs(needle, snapshot[name].value)
        \/ "sha256_8" \in DOMAIN snapshot[name] /\ Occurs(needle, snapshot[name].sha256_8)

\* needle occurs in the members of an object whose members are JavaScript
\* values, but for a snapshot, the status lists and the derived settings of
\* the diagnostics body.
OccursInMembers(needle, members) ==
    \/ \E k \in DOMAIN members \ {"snapshot", "required", "optional", "derived"} :
          OccursInValue(needle, members[k])
    \/ "snapshot" \in DOMAIN members /\ OccursInSnapshot(needle, members.snapshot)
    \/ "derived" \in DOMAIN members
          /\ \E k \in DOMAIN members.derived : OccursInValue(needle, members.derived[k])
    \/ \E k \in DOMAIN members \cap {"required", "optional"} :
          \E i \in 1..Len(members[k]) : Occurs(needle, members[k][i].name)

\* C21: the raw x-device-install-id of a request appears in no log event and
\* in no response body of any handler; the estimate handler logs its salted
\* SHA-256 hash and nothing else of it.
C21_RawDeviceIdNeverEmitted ==
    (request.present /\ isNonEmptyString(getHeader(request, "x-device-install-id"))) =>
        /\ \A i \in 1..Len(logs) :
              /\ ~OccursInMembers(getHeader(request, "x-device-install-id"), logs[i].payload)
              /\ logs[i].event = "estimate_request_received" =>
                    logs[i].payload.device_install_id_hash.s
                        = hashDeviceInstallId(getHeader(request, "x-device-install-id"),
                                              getDerivedConfig(env).deviceHashSalt)
        /\ response.sent =>
              ~OccursInMembers(getHeader(request, "x-device-install-id"), response.jsonBody)

\* The estimate handler has logged the hash of the device install id of a
\* request and has served the request.
C21_Witness ==
    /\ pc = "responded"
    /\ EstimateRequest
    /\ getHeader(request, "x-device-install-id") = "device-1"
    /\ \E i \in 1..Len(logs) : logs[i].event = "estimate_request_received"
    /\ response.status = 200

-----------------------------------------------------------------------------
(* The request pipeline with time passing, timers firing and aborts honoured *)

\* Time passes while a call is pending, the event loop runs a due timer, and
\* the upstream call rejects once its signal is aborted.
SpecLive ==
    /\ Init
    /\ [][Next]_vars
    /\ WF_vars(Tick)
    /\ WF_vars(TimerFires)
    /\ WF_vars(UpstreamAborts)

\* C26: every invocation of estimateFromImageAndAnswers eventually settles,
\* with a result or with upstream_timeout, upstream_unavailable or
\* model_invalid_response; the handler answers only after the call has
\* settled; and once it has answered the timer is cleared or has fired, so no
\* timer and no call is left pending.
C26_CallSettlesAndTimerCleared ==
    /\ [](pc = "responded" /\ call # NoCall =>
            /\ call.state = "settled"
            /\ call.timer \in {"cleared", "fired"}
            /\ orch.clientSettled
            /\ orch.client.threw =>
                  orch.client.error.code \in {"upstream_timeout", "upstream_unavailable",
                                              "model_invalid_response"})
    /\ [](pc = "awaiting" => call.state = "pending" /\ ~response.sent)
    /\ (pc = "awaiting") ~> (pc = "responded" /\ call.state = "settled")

\* An upstream call has resolved before its timer was due, the timer has been
\* cleared and the handler has answered.
C26_Witness ==
    /\ pc = "responded"
    /\ call # NoCall
    /\ call.state = "settled"
    /\ call.settledBy = "resolved"
    /\ call.timer = "cleared"

-----------------------------------------------------------------------------
(* The handlers in a process whose module was loaded before anything was set *)

\* The environment at module load: no variable is set.
InitFresh ==
    /\ AtRest
    /\ env \in Environments
    /\ \A name \in DOMAIN env : env[name] = Undefined
    /\ pure = NoPure

SpecFresh == InitFresh /\ [][Next]_vars

\* A gate of the estimate handler applies, read off the environment as it is.
GateInEnvironment ==
    \/ env["CIRCUIT_BREAKER_ENABLED"] # "false" /\ env["ESTIMATION_ENABLED"] = "false"
    \/ env["LOCKOUT_ACTIVE"] = "true"

\* C24: configuration is resolved fresh for every request: whatever the
\* environment was at module load and for earlier requests, the gating of a
\* request and the mode, model and timeout estimateCalcium and the upstream
\* call are given are those of the environment at the time of the request.
C24_ConfigurationResolvedFresh ==
    (EstimateRequest /\ ValidHeaders) =>
        /\ Answers(503, "temporarily_disabled") <=> GateInEnvironment
        /\ orch.invoked =>
              /\ orch.config.useMock = (ToLowerCase(OrDefault(env["ESTIMATE_MODE"], "")) = "mock")
              /\ orch.config.model = NonBlankOr(env["OPENAI_MODEL"], DEFAULT_MODEL)
              /\ orch.config.timeoutMs = parseTimeoutMs(env["OPENAI_TIMEOUT_MS"])
        /\ call # NoCall =>
              /\ call.args.model = NonBlankOr(env["OPENAI_MODEL"], DEFAULT_MODEL)
              /\ call.args.timeoutMs = parseTimeoutMs(env["OPENAI_TIMEOUT_MS"])

\* After the lockout was switched on and the timeout set in the running
\* process, a request has been refused by the lockout.
C24_Witness ==
    /\ pc = "responded"
    /\ EstimateRequest
    /\ ValidHeaders
    /\ env["LOCKOUT_ACTIVE"] = "true"
    /\ env["OPENAI_TIMEOUT_MS"] = "30000"
    /\ response.status = 503

-----------------------------------------------------------------------------
(* parseEstimatePayload applied on its own to every short text *)

\* The lexemes the texts are made of.
Lexemes == {"{", "}", "[", "]", ":", ",", "\"calcium_mg\"", "300", "null", "not"}

\* Every text of at most n lexemes.
Texts(n) == UNION {[1..k -> Lexemes] : k \in 0..n}

DefaultEnv == CHOOSE e \in Environments : \A name \in DOMAIN e : e[name] = Undefined

InitParse ==
    /\ AtRest
    /\ env = DefaultEnv
    /\ \E text \in Texts(MaxTextLen) :
          pure = [fn |-> "parseEstimatePayload", input |-> text, applied |-> FALSE,
                  out |-> Return(JUndefined)]

ApplyParse ==
    /\ pure.fn = "parseEstimatePayload"
    /\ ~pure.applied
    /\ pure' = [pure EXCEPT !.applied = TRUE, !.out = parseEstimatePayload(pure.input)]
    /\ UNCHANGED <<env, pc, request, now, call, orch, logs, response>>

NextParse == ApplyParse

SpecParse == InitParse /\ [][NextParse]_vars

-----------------------------------------------------------------------------
(* Claims about parseEstimatePayload *)

\* C8: parseEstimatePayload fails with model_invalid_response on every text
\* that is not valid JSON, on every JSON value that is not an object, and on
\* every object whose calcium_mg is missing or not a number; it returns (the
\* parsed object) only for a JSON object with numeric calcium_mg.
C8_ParseFailureModes ==
    (pure.fn = "parseEstimatePayload" /\ pure.applied) =>
        /\ pure.out.threw <=> ~IsObjectWithNumericCalcium(pure.input)
        /\ pure.out.threw =>
              /\ isEstimateError(pure.out.error)
              /\ pure.out.error.code = "model_invalid_response"
        /\ ~pure.out.threw => pure.out.value = JSONParse(pure.input).val

\* An object whose calcium_mg is null has been rejected for its missing estimate.
C8_Witness ==
    /\ pure.fn = "parseEstimatePayload"
    /\ pure.applied
    /\ pure.input = <<"{", "\"calcium_mg\"", ":", "null", "}">>
    /\ pure.out.threw
    /\ pure.out.error.message = "Model response missing calcium estimate."

-----------------------------------------------------------------------------
(* buildEstimatePrompt called repeatedly on the same arguments *)

\* The answers, locales and overrides the prompt is built from.  The builder
\* takes any string for a locale, and an override that may be absent, empty,
\* blank or a text of several lines.
PromptAnswers ==
    [ portion_size : PORTION_SIZES,
      contains_dairy : YES_NO_NOT_SURE_VALUES,
      contains_tofu_or_small_fish_bones : YES_NO_NOT_SURE_VALUES ]
PromptLocales == SUPPORTED_LOCALES \cup {"fr"}
PromptOverrides == {Undefined, "", " ", "Custom prompt", "Line one\nLine two\n"}

InitPrompt ==
    /\ AtRest
    /\ env = DefaultEnv
    /\ \E answers \in PromptAnswers, locale \in PromptLocales, promptOverride \in PromptOverrides :
          pure = [fn |-> "buildEstimatePrompt", answers |-> answers, locale |-> locale,
                  promptOverride |-> promptOverride, out |-> <<>>]

ApplyPrompt ==
    /\ pure.fn = "buildEstimatePrompt"
    /\ Len(pure.out) < MaxCalls
    /\ pure' = [pure EXCEPT !.out = Append(@, buildEstimatePrompt(pure.answers, pure.locale,
                                                                   pure.promptOverride))]
    /\ UNCHANGED <<env, pc, request, now, call, orch, logs, response>>

NextPrompt == ApplyPrompt

SpecPrompt == InitPrompt /\ [][NextPrompt]_vars

-----------------------------------------------------------------------------
(* parseTimeoutMs applied on its own to the values of OPENAI_TIMEOUT_MS *)

\* The characters the values are spelt with, and the values: every string of
\* at most n of them, some longer ones, and the variable being unset.
TimeoutChars == {"0", "1", "5", ".", "-", "+", " "}
TimeoutValues(n) ==
    { JoinText(chars) : chars \in UNION {[1..k -> TimeoutChars] : k \in 0..n} }
    \cup {Undefined, "45000", "30000", "1500.7", "0.001", "Infinity", "-Infinity", "abc", "NaN"}

InitTimeout ==
    /\ AtRest
    /\ env = DefaultEnv
    /\ \E raw \in TimeoutValues(MaxRawLen) :
          pure = [fn |-> "parseTimeoutMs", raw |-> raw, applied |-> FALSE,
                  timeoutMs |-> 0, openaiTimeoutMs |-> 0]

\* getConfig() and getDerivedConfig() each resolve the timeout with their own
\* parseTimeoutMs.
ApplyTimeout ==
    /\ pure.fn = "parseTimeoutMs"
    /\ ~pure.applied
    /\ pure' = [pure EXCEPT !.applied = TRUE,
                             !.timeoutMs = parseTimeoutMs(pure.raw),
                             !.openaiTimeoutMs = envParseTimeoutMs(pure.raw)]
    /\ UNCHANGED <<env, pc, request, now, call, orch, logs, response>>

NextTimeout == ApplyTimeout

SpecTimeout == InitTimeout /\ [][NextTimeout]_vars

\* The value is unset, empty, not a number, not finite, zero or negative.
TimeoutUnusable(raw) ==
    \/ ~TruthyStr(raw)
    \/ ~Number(raw).finite
    \/ Number(raw).value <= 0

\* C25: for every value of OPENAI_TIMEOUT_MS the resolved timeoutMs is a
\* positive integer: the default 45000 for an unset, empty, non-numeric,
\* non-finite, zero or negative value, and an integer of at least 1 for any
\* other value.
C25_TimeoutIsPositiveInteger ==
    (pure.fn = "parseTimeoutMs" /\ pure.applied) =>
        /\ pure.timeoutMs \in Nat /\ pure.timeoutMs >= 1
        /\ pure.openaiTimeoutMs \in Nat /\ pure.openaiTimeoutMs >= 1
        /\ TimeoutUnusable(pure.raw) =>
              pure.timeoutMs = 45000 /\ pure.openaiTimeoutMs = 45000

-----------------------------------------------------------------------------
(* getConfig, getDerivedConfig and buildEnvReport read from one environment *)

\* The environments the configuration is derived from: flags set, unset and
\* in capitals, a key that is unset, empty, blank, plain and padded.
ReportEnvironments ==
    [ ESTIMATION_ENABLED         : {Undefined, "false", "true"},
      LOCKOUT_ACTIVE             : {Undefined, "true"},
      RATE_LIMIT_ENABLED         : {Undefined},
      CIRCUIT_BREAKER_ENABLED    : {Undefined, "false"},
      ADMIN_KEY                  : {Undefined, "s3cret"},
      DEVICE_HASH_SALT           : {Undefined, "pepper"},
      LOCALIZATION_PACK_URL_BASE : {Undefined},
      USE_MOCK_ESTIMATE          : {Undefined, "true", "TRUE"},
      ESTIMATE_MODE              : {Undefined, "Mock"},
      OPENAI_API_KEY             : {Undefined, "", "  ", "sk-live", " sk-live "},
      OPENAI_MODEL               : {Undefined},
      OPENAI_BASE_URL            : {Undefined},
      OPENAI_TIMEOUT_MS          : {Undefined},
      ESTIMATOR_PROMPT_VERSION   : {Undefined},
      ESTIMATOR_PROMPT           : {Undefined},
      NODE_ENV                   : {Undefined} ]

InitEnv ==
    /\ AtRest
    /\ env \in ReportEnvironments
    /\ pure = [fn |-> "buildEnvReport", applied |-> FALSE]

\* One invocation reads the environment three ways, as every handler does on
\* entry: getDerivedConfig(), getConfig(), buildEnvReport(derivedConfig).
ApplyEnv ==
    /\ pure.fn = "buildEnvReport"
    /\ ~pure.applied
    /\ pure' = [ fn |-> "buildEnvReport", applied |-> TRUE,
                 derivedConfig |-> getDerivedConfig(env),
                 config |-> getConfig(env),
                 envReport |-> buildEnvReport(getDerivedConfig(env), env) ]
    /\ UNCHANGED <<env, pc, request, now, call, orch, logs, response>>

NextEnv == ApplyEnv

SpecEnv == InitEnv /\ [][NextEnv]_vars

\* The names of a list of statuses, and the present flag a report gives for a name.
StatusNames(statuses) == {statuses[i].name : i \in 1..Len(statuses)}
NamesIn(names) == {names[i] : i \in 1..Len(names)}
ReportedPresent(report, name) ==
    \E i \in 1..Len(report.required \o report.optional) :
        /\ (report.required \o report.optional)[i].name = name
        /\ (report.required \o report.optional)[i].present

\* C16: the EstimateConfig and the EnvReport derived from one environment
\* agree: useMock equals useMockEstimate, apiKeyPresent equals the report's
\* present flag of OPENAI_API_KEY, and OPENAI_API_KEY is in missing_required
\* exactly when estimateCalcium would fail for lack of a key (mock off and
\* no key).
C16_ConfigAndReportAgree ==
    (pure.fn = "buildEnvReport" /\ pure.applied) =>
        /\ pure.config.useMock = pure.derivedConfig.useMockEstimate
        /\ pure.config.apiKeyPresent = ReportedPresent(pure.envReport, "OPENAI_API_KEY")
        /\ ("OPENAI_API_KEY" \in NamesIn(pure.envReport.missing_required))
              <=> (~pure.config.useMock /\ ~TruthyStr(pure.config.apiKey))

\* C17: buildEnvReport lists OPENAI_API_KEY as required exactly when
\* estimationEnabled and not lockoutActive and not useMockEstimate, lists
\* every other variable as optional, and puts a name in missing_required
\* exactly when the variable is required and unset or blank.
C17_RequiredExactlyWhenLive ==
    (pure.fn = "buildEnvReport" /\ pure.applied) =>
        LET cfg    == pure.derivedConfig
            report == pure.envReport
        IN  \A name \in DOMAIN report.snapshot :
              /\ name \in StatusNames(report.required)
                    <=> ( /\ name = "OPENAI_API_KEY"
                          /\ cfg.estimationEnabled /\ ~cfg.lockoutActive /\ ~cfg.useMockEstimate )
              /\ name \in StatusNames(report.optional) <=> name \notin StatusNames(report.required)
              /\ name \in NamesIn(report.missing_required)
                    <=> ( /\ name \in StatusNames(report.required)
                          /\ (env[name] = Undefined \/ Trim(env[name]) = "") )

\* The report of a live configuration whose key is blank: the key is
\* required and missing.
C17_Witness ==
    /\ pure.fn = "buildEnvReport"
    /\ pure.applied
    /\ env["OPENAI_API_KEY"] = "  "
    /\ pure.envReport.missing_required = << "OPENAI_API_KEY" >>
    /\ StatusNames(pure.envReport.required) = {"OPENAI_API_KEY"}

-----------------------------------------------------------------------------
(* app/src/services/apiClient.ts: the client's requests *)

ApiErrorKinds == {"NETWORK", "TIMEOUT", "HTTP", "CANCEL", "UNKNOWN"}

messageForKind(kind) ==
    CASE kind = "NETWORK" -> "Can't reach the server right now. Check Wi-Fi and try again."
      [] kind = "TIMEOUT" -> "The server is taking too long to respond. Try again."
      [] kind = "HTTP"    -> "Something went wrong on our side. Please try again."
      [] kind = "CANCEL"  -> "The request was canceled. Please try again."
      [] OTHER            -> "Something went wrong. Please try again."

\* buildApiClientError({kind, status, ...}); an error of another class has
\* isApiClientError false.
ApiClientError(kind, status, traceId) ==
    [ isApiClientError |-> TRUE, kind |-> kind, status |-> status,
      messageUser |-> messageForKind(kind), traceId |-> traceId ]
NotApiClientError ==
    [ isApiClientError |-> FALSE, kind |-> "", status |-> 0, messageUser |-> "",
      traceId |-> "" ]

\* createUuidV4() giving the same value every time.
createUuidV4Repeating(issued) == "trace-1"

\* createUuidV4(): a version 4 uuid from 16 fresh random bytes, a value no
\* earlier call gave.
createUuidV4(issued) == "trace-" \o ToString(issued + 1)

\* What a fetch can come to: a response with a status and a body that is JSON
\* or not, or a rejection, of which the catch clause looks at whether the
\* client's own timer had fired, whether the error is named AbortError and
\* whether its message is one of a network failure.
FetchOutcomes ==
    { [ type |-> "response", status |-> status, json |-> json,
        didTimeout |-> FALSE, abortError |-> FALSE, networkMessage |-> FALSE ] :
          status \in {200, 400, 502, 503}, json \in BOOLEAN }
    \cup { [ type |-> "rejected", status |-> 0, json |-> FALSE,
              didTimeout |-> didTimeout, abortError |-> abortError,
              networkMessage |-> networkMessage ] :
               didTimeout \in BOOLEAN, abortError \in BOOLEAN, networkMessage \in BOOLEAN }

\* The catch clause with CANCEL taking precedence over TIMEOUT.
KindOfRejectionAbortFirst(outcome) ==
    IF outcome.abortError THEN "CANCEL"
    ELSE IF outcome.didTimeout THEN "TIMEOUT"
    ELSE IF outcome.networkMessage THEN "NETWORK"
    ELSE "UNKNOWN"

\* The kind the catch clause of fetchWithLogging works out: didTimeout, then
\* isAbortError(error), then isNetworkErrorMessage(message).
KindOfRejection(outcome) ==
    IF outcome.didTimeout THEN "TIMEOUT"
    ELSE IF outcome.abortError THEN "CANCEL"
    ELSE IF outcome.networkMessage THEN "NETWORK"
    ELSE "UNKNOWN"

\* fetchWithLogging: the response, or the ApiClientError built in the catch
\* clause with the trace id of the call.
fetchWithLogging(outcome, traceId) ==
    IF outcome.type = "response"
    THEN [threw |-> FALSE, response |-> outcome, error |-> NotApiClientError]
    ELSE [ threw |-> TRUE, response |-> outcome,
           error |-> ApiClientError(KindOfRejection(outcome), 0, traceId) ]

\* response.ok
ResponseOk(fetched) == fetched.status \in 200..299

\* requestJson: the data of a 2xx response, an HTTP ApiClientError for any
\* other status, whatever fetchWithLogging threw, or the error of
\* response.json() on a body that is not JSON.
requestJson(outcome, traceId) ==
    LET fetched == fetchWithLogging(outcome, traceId) IN
    IF fetched.threw THEN [threw |-> TRUE, error |-> fetched.error]
    ELSE IF ~ResponseOk(fetched.response)
    THEN [threw |-> TRUE, error |-> ApiClientError("HTTP", fetched.response.status, traceId)]
    ELSE IF ~fetched.response.json THEN [threw |-> TRUE, error |-> NotApiClientError]
    ELSE [threw |-> FALSE, error |-> NotApiClientError]

\* The request getStatus() sends.
StatusRequest == [method |-> "GET", path |-> "/api/status", headers |-> <<>>]

\* The request estimateCalcium(deviceInstallId, request) sends, with the trace
\* id it created.
EstimateCalciumRequest(deviceInstallId, traceId) ==
    [ method |-> "POST", path |-> "/api/estimateCalcium",
      headers |-> [ h \in {"content-type", "x-device-install-id", "x-request-id", "x-app-version"} |->
                      CASE h = "content-type"        -> "application/json"
                        [] h = "x-device-install-id" -> deviceInstallId
                        [] h = "x-request-id"        -> traceId
                        [] h = "x-app-version"       -> "appVersion" ] ]

-----------------------------------------------------------------------------
(* app/src/screens/QuestionsScreen.tsx: handleSubmit and its alerts *)

\* The most submissions started on one visit to the screen.
MaxSubmits == 3

PhotoUri == "file:///capture.jpg"

\* Alert.alert(title, message) with no buttons shows a single OK; `run` is the
\* submission that raised the alert, whose handleSubmit its Try Again calls.
PhotoMissingAlert(run) ==
    [ title |-> "Photo missing", message |-> "Please retake the photo before continuing.",
      code |-> "", actions |-> <<"OK">>, run |-> run ]
StatusAlert(run) ==
    [ title |-> "Can't reach server", message |-> "", code |-> "",
      actions |-> <<"OK">>, run |-> run ]
DetailsAlert(run) ==
    [ title |-> "Details", message |-> "URL, Status, Method", code |-> "",
      actions |-> <<"OK">>, run |-> run ]

\* showErrorAlert offering Cancel alone.
showErrorAlertWithoutRetry(error, dev, run) ==
    [ title |-> "Unable to continue", message |-> error.messageUser,
      code |-> error.traceId,
      actions |-> IF dev THEN <<"Details", "Cancel">> ELSE <<"Cancel">>,
      run |-> run ]

\* showErrorAlert(error, onRetry): the user's message and "Error code:" with
\* the error's trace id; Try Again and Cancel, with Details spliced between
\* them in a development build.
showErrorAlert(error, dev, run) ==
    [ title |-> "Unable to continue", message |-> error.messageUser,
      code |-> error.traceId,
      actions |-> IF dev THEN <<"Try Again", "Details", "Cancel">>
                         ELSE <<"Try Again", "Cancel">>,
      run |-> run ]

\* The alert of the catch clause for an error that is no ApiClientError.
UnknownErrorAlert(run) ==
    [ title |-> "Unable to continue", message |-> "Something went wrong. Please try again.",
      code |-> "unknown", actions |-> <<"Try Again", "Cancel">>, run |-> run ]

Offers(alert, text) == \E i \in 1..Len(alert.actions) : alert.actions[i] = text

\* canProceed = questionsCount === 0 || allRequiredAnswered
canProceed(q) == q.questionsCount = 0 \/ q.allRequiredAnswered

\* A submission that got past the guards: where it is waiting, the steps it
\* has taken, the isSubmitting its handleSubmit closure captured, the trace
\* id of its request in flight, and what it failed with.
NewRun(at, steps, closure, traceId) ==
    [ at |-> at, steps |-> steps, closure |-> closure, traceId |-> traceId,
      failed |-> "none" ]

InFlightAt == {"status", "read", "estimate"}

\* finally { setIsSubmitting(false) } with the submission over.
Finally(q, i, steps, failed) ==
    [q EXCEPT !.isSubmitting = FALSE,
              !.runs[i].at = "done",
              !.runs[i].steps = @ \o steps,
              !.runs[i].failed = failed]

\* handleSubmit going to the status check whether or not there is a photo.
handleSubmitWithoutPhotoCheck(q, isSubmitting) ==
    IF isSubmitting THEN [q EXCEPT !.rejected = TRUE]
    ELSE IF ~canProceed(q) THEN q
    ELSE [q EXCEPT !.isSubmitting = TRUE,
                   !.runs = Append(@, NewRun("status", <<"photo_check", "status_check">>,
                                             isSubmitting, createUuidV4(q.uuids))),
                   !.uuids = @ + 1,
                   !.sent = Append(@, StatusRequest)]

\* handleSubmit, from its call to its first await.  isSubmitting is the value
\* captured by the closure that is called, not the current state.
handleSubmit(q, isSubmitting) ==
    IF isSubmitting THEN [q EXCEPT !.rejected = TRUE]
    ELSE IF q.photoUri = Undefined
    THEN [q EXCEPT !.alerts = Append(@, PhotoMissingAlert(Len(q.runs) + 1)),
                   !.screen = "Back",
                   !.runs = Append(@, NewRun("done", <<"photo_check", "alert", "go_back">>,
                                             isSubmitting, ""))]
    ELSE IF ~canProceed(q) THEN q
    ELSE [q EXCEPT !.isSubmitting = TRUE,
                   !.runs = Append(@, NewRun("status", <<"photo_check", "status_check">>,
                                             isSubmitting, createUuidV4(q.uuids))),
                   !.uuids = @ + 1,
                   !.sent = Append(@, StatusRequest)]

\* handleSubmit going on to the image read after a failed status check.
handleSubmitAfterStatusIgnoringFailure(q, i, outcome) ==
    IF requestJson(outcome, q.runs[i].traceId).threw
    THEN [q EXCEPT !.runs[i].at = "read",
                   !.runs[i].steps = @ \o <<"alert", "image_read">>,
                   !.runs[i].failed = "status",
                   !.alerts = Append(@, StatusAlert(i))]
    ELSE [q EXCEPT !.runs[i].at = "read", !.runs[i].steps = Append(@, "image_read")]

\* handleSubmit resumed when getStatus() settles: its own catch alerts and
\* returns, else the photo file is read.
handleSubmitAfterStatus(q, i, outcome) ==
    IF requestJson(outcome, q.runs[i].traceId).threw
    THEN [Finally(q, i, <<"alert">>, "status") EXCEPT !.alerts = Append(@, StatusAlert(i))]
    ELSE [q EXCEPT !.runs[i].at = "read", !.runs[i].steps = Append(@, "image_read")]

\* handleSubmit resumed when FileSystem.readAsStringAsync settles: the request
\* is built and estimateCalcium sends it, or the outer catch gets the error.
handleSubmitAfterRead(q, i, readOk) ==
    IF ~readOk
    THEN [Finally(q, i, <<"alert">>, "read") EXCEPT !.alerts = Append(@, UnknownErrorAlert(i))]
    ELSE [q EXCEPT !.runs[i].at = "estimate",
                   !.runs[i].steps = Append(@, "estimate_request"),
                   !.runs[i].traceId = createUuidV4(q.uuids),
                   !.uuids = @ + 1,
                   !.sent = Append(@, EstimateCalciumRequest(q.deviceInstallId,
                                                             createUuidV4(q.uuids)))]

\* handleSubmit storing the estimate as an entry before it navigates.
handleSubmitAfterEstimateSavingEntry(q, i, outcome) ==
    LET settled == requestJson(outcome, q.runs[i].traceId) IN
    IF ~settled.threw
    THEN [Finally(q, i, <<"navigate_result">>, "none") EXCEPT
              !.screen = "Result",
              !.storage.entries = Append(@, "entry-2")]
    ELSE [Finally(q, i, <<"alert">>, "estimate") EXCEPT
              !.alerts = Append(@, IF settled.error.isApiClientError
                                   THEN showErrorAlert(settled.error, q.dev, i)
                                   ELSE UnknownErrorAlert(i))]

\* handleSubmit resumed when estimateCalcium settles: navigation to Result, or
\* the outer catch with showErrorAlert for an ApiClientError.
handleSubmitAfterEstimate(q, i, outcome) ==
    LET settled == requestJson(outcome, q.runs[i].traceId) IN
    IF ~settled.threw
    THEN [Finally(q, i, <<"navigate_result">>, "none") EXCEPT !.screen = "Result"]
    ELSE [Finally(q, i, <<"alert">>, "estimate") EXCEPT
              !.alerts = Append(@, IF settled.error.isApiClientError
                                   THEN showErrorAlert(settled.error, q.dev, i)
                                   ELSE UnknownErrorAlert(i))]

-----------------------------------------------------------------------------
(* The Questions screen: presses, renders and settling requests *)

\* The screen as mounted, with no question answered yet: isSubmitting is the
\* state, rendered the value the handlers of the last render captured, and
\* storage the settings and entries persisted on the device.
InitClient ==
    /\ AtRest
    /\ env = DefaultEnv
    /\ \E photoUri \in {Undefined, PhotoUri}, questionsCount \in {0, 3}, dev \in BOOLEAN,
          entries \in {<<>>, <<"entry-1">>} :
          pure = [ fn |-> "QuestionsScreen", photoUri |-> photoUri,
                   storage |-> [ settings |-> [device_install_id |-> "device-1",
                                               locale |-> "en"],
                                 entries |-> entries ],
                   questionsCount |-> questionsCount,
                   allRequiredAnswered |-> FALSE, dev |-> dev,
                   deviceInstallId |-> "device-1",
                   isSubmitting |-> FALSE, rendered |-> FALSE, rejected |-> FALSE,
                   uuids |-> 0,
                   runs |-> <<>>, alerts |-> <<>>, screen |-> "Questions", sent |-> <<>> ]

\* A render commits the state to the handlers the buttons hold.
Flush(q) == [q EXCEPT !.rendered = q.isSubmitting]

\* The screen's buttons can be pressed: it is shown and no alert covers it.
\* (screens/QuestionsScreen.tsx renders Next with or without a photo.)
Pressable ==
    /\ pure.fn = "QuestionsScreen"
    /\ pure.screen = "Questions"
    /\ pure.alerts = <<>>

\* The user answers the questions.
AnswerQuestions ==
    /\ Pressable
    /\ pure.questionsCount > 0
    /\ ~pure.allRequiredAnswered
    /\ pure' = [pure EXCEPT !.allRequiredAnswered = TRUE]
    /\ UNCHANGED <<env, pc, request, now, call, orch, logs, response>>

\* Next: onPress={handleSubmit} disabled={!canProceed || isSubmitting}; the
\* state set in a press handler is rendered before the next event.
PressNext ==
    /\ Pressable
    /\ ~(~canProceed(pure) \/ pure.rendered)
    /\ Len(pure.runs) < MaxSubmits
    /\ pure' = Flush(handleSubmit(pure, pure.rendered))
    /\ UNCHANGED <<env, pc, request, now, call, orch, logs, response>>

\* Continue, offered when there are no questions: handleContinueWithoutQuestions
\* calls the rendered handleSubmit.
PressContinue ==
    /\ Pressable
    /\ pure.questionsCount = 0
    /\ Len(pure.runs) < MaxSubmits
    /\ pure' = Flush(handleSubmit(pure, pure.rendered))
    /\ UNCHANGED <<env, pc, request, now, call, orch, logs, response>>

\* Try Again: onRetry calls the handleSubmit of the submission that raised the
\* alert, with the isSubmitting that closure captured.
PressTryAgain ==
    /\ pure.fn = "QuestionsScreen"
    /\ pure.alerts # <<>>
    /\ Offers(Head(pure.alerts), "Try Again")
    /\ Len(pure.runs) < MaxSubmits
    /\ pure' = handleSubmit([pure EXCEPT !.alerts = Tail(@)],
                            pure.runs[Head(pure.alerts).run].closure)
    /\ UNCHANGED <<env, pc, request, now, call, orch, logs, response>>

\* Cancel: navigation.goBack().
PressCancel ==
    /\ pure.fn = "QuestionsScreen"
    /\ pure.alerts # <<>>
    /\ Offers(Head(pure.alerts), "Cancel")
    /\ pure' = [pure EXCEPT !.alerts = Tail(@), !.screen = "Back"]
    /\ UNCHANGED <<env, pc, request, now, call, orch, logs, response>>

\* Details: a second alert with the request's url, status and method.
PressDetails ==
    /\ pure.fn = "QuestionsScreen"
    /\ pure.alerts # <<>>
    /\ Offers(Head(pure.alerts), "Details")
    /\ pure' = [pure EXCEPT !.alerts = Append(Tail(@), DetailsAlert(Head(pure.alerts).run))]
    /\ UNCHANGED <<env, pc, request, now, call, orch, logs, response>>

\* OK dismisses an alert that has no other button.
PressOk ==
    /\ pure.fn = "QuestionsScreen"
    /\ pure.alerts # <<>>
    /\ Offers(Head(pure.alerts), "OK")
    /\ pure' = [pure EXCEPT !.alerts = Tail(@)]
    /\ UNCHANGED <<env, pc, request, now, call, orch, logs, response>>

\* A state update made outside a press handler (in an alert's callback or
\* after an await) is rendered by a later task.
Render ==
    /\ pure.fn = "QuestionsScreen"
    /\ pure.rendered # pure.isSubmitting
    /\ pure' = Flush(pure)
    /\ UNCHANGED <<env, pc, request, now, call, orch, logs, response>>

StatusSettles ==
    /\ pure.fn = "QuestionsScreen"
    /\ \E i \in 1..Len(pure.runs), outcome \in FetchOutcomes :
          /\ pure.runs[i].at = "status"
          /\ pure' = handleSubmitAfterStatus(pure, i, outcome)
    /\ UNCHANGED <<env, pc, request, now, call, orch, logs, response>>

ReadSettles ==
    /\ pure.fn = "QuestionsScreen"
    /\ \E i \in 1..Len(pure.runs), readOk \in BOOLEAN :
          /\ pure.runs[i].at = "read"
          /\ pure' = handleSubmitAfterRead(pure, i, readOk)
    /\ UNCHANGED <<env, pc, request, now, call, orch, logs, response>>

EstimateSettles ==
    /\ pure.fn = "QuestionsScreen"
    /\ \E i \in 1..Len(pure.runs), outcome \in FetchOutcomes :
          /\ pure.runs[i].at = "estimate"
          /\ pure' = handleSubmitAfterEstimate(pure, i, outcome)
    /\ UNCHANGED <<env, pc, request, now, call, orch, logs, response>>

NextClient ==
    \/ AnswerQuestions
    \/ PressNext
    \/ PressContinue
    \/ PressTryAgain
    \/ PressCancel
    \/ PressDetails
    \/ PressOk
    \/ Render
    \/ StatusSettles
    \/ ReadSettles
    \/ EstimateSettles

SpecClient == InitClient /\ [][NextClient]_vars

-----------------------------------------------------------------------------
(* Claims about the client, checked under SpecClient *)

OnScreen == pure.fn = "QuestionsScreen"

Runs == 1..Len(pure.runs)

\* The step occurs in the steps a submission has taken.
Took(run, step) == \E k \in 1..Len(run.steps) : run.steps[k] = step

\* The requests sent so far to a path.
SentTo(path) == {k \in 1..Len(pure.sent) : pure.sent[k].path = path}

\* The submissions that have come as far as a step.
CameTo(step) == {i \in Runs : Took(pure.runs[i], step)}

\* C22: the device install id is one-way hashed before it leaves the device:
\* no header of any request the client sends contains the raw persisted id.
C22_NoRequestCarriesRawDeviceId ==
    OnScreen =>
        \A k \in 1..Len(pure.sent) :
            \A h \in DOMAIN pure.sent[k].headers :
                ~Occurs(pure.deviceInstallId, pure.sent[k].headers[h])

\* C27: the steps of every handleSubmit come in the order photo-present check,
\* status check, image read, estimate request, navigation to Result: without
\* a photo uri there is an alert and a navigation back and no status request;
\* each later step directly follows the one before it; there are as many
\* status and estimate requests as submissions that came to those steps; and
\* the Result screen is shown only after a submission took all five steps.
C27_StepsInFixedOrder ==
    OnScreen =>
        /\ \A i \in Runs :
              LET steps == pure.runs[i].steps IN
              /\ steps[1] = "photo_check"
              /\ \A k \in 2..Len(steps) :
                    /\ steps[k] # "photo_check"
                    /\ steps[k] = "status_check" => steps[k - 1] = "photo_check"
                    /\ steps[k] = "image_read" => steps[k - 1] = "status_check"
                    /\ steps[k] = "estimate_request" => steps[k - 1] = "image_read"
                    /\ steps[k] = "navigate_result" => steps[k - 1] = "estimate_request"
                    /\ steps[k] = "go_back" => steps = <<"photo_check", "alert", "go_back">>
              /\ pure.photoUri = Undefined => steps = <<"photo_check", "alert", "go_back">>
        /\ pure.photoUri = Undefined => pure.sent = <<>>
        /\ Cardinality(SentTo("/api/status")) = Cardinality(CameTo("status_check"))
        /\ Cardinality(SentTo("/api/estimateCalcium")) = Cardinality(CameTo("estimate_request"))
        /\ pure.screen = "Result" => CameTo("navigate_result") # {}

\* A submission took all five steps and the Result screen is shown.
C27_Witness ==
    /\ OnScreen
    /\ pure.screen = "Result"
    /\ \E i \in Runs :
          pure.runs[i].steps = <<"photo_check", "status_check", "image_read",
                                 "estimate_request", "navigate_result">>
    /\ Len(pure.sent) = 2

\* A submission made without a photo uri alerted and navigated back.
C27_WitnessNoPhoto ==
    /\ OnScreen
    /\ pure.photoUri = Undefined
    /\ pure.runs # <<>>
    /\ pure.screen = "Back"

\* A submission whose status check is settling with a failure.
StatusFails(i) ==
    /\ i \in Runs
    /\ pure.runs[i].at = "status"
    /\ pure'.runs[i].failed = "status"

\* C28: when the status check of a submission fails, the alert of the status
\* check is shown, nothing is sent and no file is read for that submission,
\* the screen does not change, and isSubmitting is false again.
C28_StatusFailureStopsSubmission ==
    [][\A i \in 1..MaxSubmits :
          StatusFails(i) =>
              /\ pure'.alerts = Append(pure.alerts, StatusAlert(i))
              /\ pure'.sent = pure.sent
              /\ pure'.runs[i].at = "done"
              /\ ~Took(pure'.runs[i], "image_read")
              /\ ~Took(pure'.runs[i], "estimate_request")
              /\ pure'.screen = pure.screen
              /\ pure'.isSubmitting = FALSE]_vars

\* A submission ended at its status check, with the alert up and the flag down.
C28_Witness ==
    /\ OnScreen
    /\ \E i \in Runs :
          /\ pure.runs[i].failed = "status"
          /\ pure.runs[i].steps = <<"photo_check", "status_check", "alert">>
          /\ pure.alerts = <<StatusAlert(i)>>
    /\ ~pure.isSubmitting
    /\ pure.screen = "Questions"
    /\ Len(pure.sent) = 1

\* The x-request-id header of the k-th request sent.
RequestIdOf(k) == pure.sent[k].headers["x-request-id"]

\* The estimate request of a submission is settling with an ApiClientError.
EstimateRaisesApiClientError(i) ==
    /\ i \in Runs
    /\ pure.runs[i].at = "estimate"
    /\ pure'.runs[i].failed = "estimate"
    /\ pure'.alerts[Len(pure'.alerts)].code # "unknown"

\* C32: each call of estimateCalcium sends a trace id of its own as
\* x-request-id (no two estimate requests carry the same one, so a retry
\* differs from the failed attempt), and an ApiClientError raised by the call
\* carries the trace id the call sent, which the alert shows as its error code.
C32_FreshTraceIdPerCall ==
    /\ [](OnScreen =>
            /\ \A j, k \in SentTo("/api/estimateCalcium") :
                  j # k => RequestIdOf(j) # RequestIdOf(k)
            /\ \A i \in CameTo("estimate_request") :
                  \E k \in SentTo("/api/estimateCalcium") :
                      RequestIdOf(k) = pure.runs[i].traceId)
    /\ [][\A i \in 1..MaxSubmits :
             EstimateRaisesApiClientError(i) =>
                 /\ pure'.alerts[Len(pure'.alerts)].code = pure.runs[i].traceId
                 /\ \E k \in SentTo("/api/estimateCalcium") :
                       RequestIdOf(k) = pure'.alerts[Len(pure'.alerts)].code]_vars

\* A retry's estimate request failed with an ApiClientError after a first
\* estimate request had failed: two estimate requests with two trace ids, and
\* the alert showing the second.
C32_Witness ==
    /\ OnScreen
    /\ Cardinality(SentTo("/api/estimateCalcium")) = 2
    /\ Len(pure.runs) = 2
    /\ pure.runs[1].failed = "estimate"
    /\ pure.runs[2].failed = "estimate"
    /\ pure.alerts # <<>>
    /\ Head(pure.alerts).code = pure.runs[2].traceId
    /\ pure.runs[2].traceId # pure.runs[1].traceId

\* C31: no step of the submission flow, successful or failed, changes the
\* persisted settings or entries.
C31_SubmissionLeavesStorageUnchanged ==
    [][pure'.storage = pure.storage]_vars

\* With an entry and the settings persisted, one submission failed at its
\* estimate request and a retry went through to Result.
C31_Witness ==
    /\ OnScreen
    /\ pure.storage.entries = <<"entry-1">>
    /\ pure.storage.settings.device_install_id = pure.deviceInstallId
    /\ Len(pure.runs) = 2
    /\ pure.runs[1].failed = "estimate"
    /\ Took(pure.runs[2], "navigate_result")
    /\ pure.screen = "Result"

\* The submissions in flight: at the status check, the image read or the
\* estimate request.
InFlight == {i \in Runs : pure.runs[i].at \in InFlightAt}

ReadOrEstimateFails(i) ==
    /\ i \in Runs
    /\ pure.runs[i].at \in {"read", "estimate"}
    /\ pure'.runs[i].failed \in {"read", "estimate"}

\* C30: a submission that fails at the image read or at the estimate request
\* ends with one more alert, which offers Try Again and Cancel, and without a
\* change of screen.
C30_FailureOffersRetryOrCancel ==
    [][\A i \in 1..MaxSubmits :
          ReadOrEstimateFails(i) =>
              /\ Len(pure'.alerts) = Len(pure.alerts) + 1
              /\ pure'.alerts[Len(pure'.alerts)].run = i
              /\ Offers(pure'.alerts[Len(pure'.alerts)], "Try Again")
              /\ Offers(pure'.alerts[Len(pure'.alerts)], "Cancel")
              /\ pure'.runs[i].at = "done"
              /\ ~Took(pure'.runs[i], "navigate_result")
              /\ pure'.screen = pure.screen]_vars

\* An estimate request timed out and the alert with the timeout's message
\* offers Try Again and Cancel.
C30_Witness ==
    /\ OnScreen
    /\ pure.alerts # <<>>
    /\ pure.runs[Head(pure.alerts).run].failed = "estimate"
    /\ Head(pure.alerts).message = messageForKind("TIMEOUT")
    /\ Offers(Head(pure.alerts), "Try Again")
    /\ Offers(Head(pure.alerts), "Cancel")
    /\ pure.screen = "Questions"

\* An image read failed and the alert offers Try Again and Cancel.
C30_WitnessRead ==
    /\ OnScreen
    /\ pure.alerts # <<>>
    /\ pure.runs[Head(pure.alerts).run].failed = "read"
    /\ Offers(Head(pure.alerts), "Try Again")
    /\ Offers(Head(pure.alerts), "Cancel")

-----------------------------------------------------------------------------
(* app/src/services/settings.ts and its storage layer: getOrCreateDeviceInstallId *)

\* The most calls of getOrCreateDeviceInstallId in one launch of the app.
MaxCallers == 4

Callers == 1..MaxCallers

\* uuidv4(): a value no earlier call produced.
uuidv4(issued) == "uuid-" \o ToString(issued + 1)

\* loadState(): the cached state when there is one, else the stored one,
\* which then becomes the cached one.
loadState(db) == IF db.cachedState.loaded THEN db.cachedState.device_install_id
                 ELSE db.storage

\* A launch of the app: nothing cached, and in storage either no id yet or
\* the id an earlier launch persisted.
InitSettings ==
    /\ AtRest
    /\ env = DefaultEnv
    /\ \E stored \in {Undefined, "uuid-0"} :
          pure = [ fn |-> "getOrCreateDeviceInstallId",
                   storage |-> stored,
                   cachedState |-> [loaded |-> FALSE, device_install_id |-> Undefined],
                   writeChain |-> <<>>,
                   issued |-> 0,
                   calls |-> [c \in Callers |->
                                [at |-> "idle", created |-> Undefined, result |-> Undefined]] ]

\* getOrCreateDeviceInstallId() is called and awaits getSetting.
CallGetOrCreate ==
    /\ pure.fn = "getOrCreateDeviceInstallId"
    /\ \E c \in Callers :
          /\ pure.calls[c].at = "idle"
          /\ pure' = [pure EXCEPT !.calls[c].at = "getSetting"]
    /\ UNCHANGED <<env, pc, request, now, call, orch, logs, response>>

\* getSetting resolves: an existing id is returned; with none, an id is
\* created and setSetting puts its write at the end of the write chain.
GetSettingResolves ==
    /\ pure.fn = "getOrCreateDeviceInstallId"
    /\ \E c \in Callers :
          /\ pure.calls[c].at = "getSetting"
          /\ LET existing == loadState(pure)
                 loaded == [pure EXCEPT !.cachedState =
                                [loaded |-> TRUE, device_install_id |-> existing]]
             IN  pure' = IF existing # Undefined
                         THEN [loaded EXCEPT !.calls[c].at = "returned",
                                             !.calls[c].result = existing]
                         ELSE [loaded EXCEPT !.calls[c].at = "setSetting",
                                             !.calls[c].created = uuidv4(pure.issued),
                                             !.issued = @ + 1,
                                             !.writeChain = Append(@, c)]
    /\ UNCHANGED <<env, pc, request, now, call, orch, logs, response>>

\* The first write of the chain runs: the setting is stored and cached, and
\* the call returns the id it created.
SetSettingResolves ==
    /\ pure.fn = "getOrCreateDeviceInstallId"
    /\ pure.writeChain # <<>>
    /\ LET c == Head(pure.writeChain)
           created == pure.calls[c].created
       IN  pure' = [pure EXCEPT !.storage = created,
                                !.cachedState = [loaded |-> TRUE, device_install_id |-> created],
                                !.writeChain = Tail(@),
                                !.calls[c].at = "returned",
                                !.calls[c].result = created]
    /\ UNCHANGED <<env, pc, request, now, call, orch, logs, response>>

NextSettings ==
    \/ CallGetOrCreate
    \/ GetSettingResolves
    \/ SetSettingResolves

SpecSettings == InitSettings /\ [][NextSettings]_vars

\* The calls that have returned.
Returned == {c \in Callers : pure.calls[c].at = "returned"}

\* C23: for any sequence or interleaving of calls to
\* getOrCreateDeviceInstallId, every call returns the same id, and that id is
\* the one persisted in settings.
C23_OneDeviceIdPerInstallation ==
    pure.fn = "getOrCreateDeviceInstallId" =>
        /\ \A c, d \in Returned : pure.calls[c].result = pure.calls[d].result
        /\ \A c \in Returned : pure.calls[c].result = pure.storage

-----------------------------------------------------------------------------
(* fetchWithLogging and requestJson applied on their own to every outcome *)

\* The outcomes of FetchOutcomes with more statuses on either side of 2xx.
StudiedOutcomes ==
    FetchOutcomes
    \cup { [ type |-> "response", status |-> status, json |-> json,
             didTimeout |-> FALSE, abortError |-> FALSE, networkMessage |-> FALSE ] :
               status \in {199, 204, 299, 300, 404, 429, 500, 504}, json \in BOOLEAN }

NotSettled == [threw |-> FALSE, error |-> NotApiClientError]

InitFetch ==
    /\ AtRest
    /\ env = DefaultEnv
    /\ \E outcome \in StudiedOutcomes, traceId \in {createUuidV4(0), createUuidV4(1)} :
          pure = [ fn |-> "requestJson", outcome |-> outcome, traceId |-> traceId,
                   stage |-> "fetching",
                   fetched |-> [threw |-> FALSE, response |-> outcome,
                                error |-> NotApiClientError],
                   settled |-> NotSettled ]

\* The fetch settles and fetchWithLogging returns or throws.
FetchSettles ==
    /\ pure.fn = "requestJson"
    /\ pure.stage = "fetching"
    /\ pure' = [pure EXCEPT !.stage = "fetched",
                             !.fetched = fetchWithLogging(pure.outcome, pure.traceId)]
    /\ UNCHANGED <<env, pc, request, now, call, orch, logs, response>>

\* requestJson returns or throws.
RequestJsonSettles ==
    /\ pure.fn = "requestJson"
    /\ pure.stage = "fetched"
    /\ pure' = [pure EXCEPT !.stage = "settled",
                             !.settled = requestJson(pure.outcome, pure.traceId)]
    /\ UNCHANGED <<env, pc, request, now, call, orch, logs, response>>

NextFetch ==
    \/ FetchSettles
    \/ RequestJsonSettles

SpecFetch == InitFetch /\ [][NextFetch]_vars

\* A rejected fetch is raised as the ApiClientError of the kind the precedence
\* gives, and a response outside 2xx as an HTTP one with its status.
ClassifiedByPrecedence ==
    /\ pure.stage # "fetching" /\ pure.outcome.type = "rejected" =>
          /\ pure.fetched.threw
          /\ pure.fetched.error.isApiClientError
          /\ pure.fetched.error.kind =
                 (IF pure.outcome.didTimeout THEN "TIMEOUT"
                  ELSE IF pure.outcome.abortError THEN "CANCEL"
                  ELSE IF pure.outcome.networkMessage THEN "NETWORK"
                  ELSE "UNKNOWN")
          /\ pure.stage = "settled" => pure.settled = [threw |-> TRUE, error |-> pure.fetched.error]
    /\ pure.stage # "fetching" /\ pure.outcome.type = "response" => ~pure.fetched.threw
    /\ ( /\ pure.stage = "settled"
         /\ pure.outcome.type = "response"
         /\ pure.outcome.status \notin 200..299 ) =>
          /\ pure.settled.threw
          /\ pure.settled.error.isApiClientError
          /\ pure.settled.error.kind = "HTTP"
          /\ pure.settled.error.status = pure.outcome.status

\* C35 as stated: the precedence TIMEOUT, CANCEL, NETWORK, UNKNOWN for a
\* failed fetch, HTTP with its status for a non-2xx response, and every
\* failure an ApiClientError of one of the five kinds.
C35_EveryFailureIsApiClientError ==
    pure.fn = "requestJson" =>
        /\ ClassifiedByPrecedence
        /\ (pure.stage = "settled" /\ pure.settled.threw) =>
              /\ pure.settled.error.isApiClientError
              /\ pure.settled.error.kind \in ApiErrorKinds

\* C35, amended: the precedence TIMEOUT, CANCEL, NETWORK, UNKNOWN for a failed
\* fetch, HTTP with its status for a non-2xx response; every failed fetch and
\* every non-2xx response is raised as an ApiClientError of one of the five
\* kinds, and a 2xx response whose body is not JSON is raised as an error that
\* is no ApiClientError.
C35_FetchAndStatusFailuresClassified ==
    pure.fn = "requestJson" =>
        /\ ClassifiedByPrecedence
        /\ (pure.stage = "settled" /\ pure.settled.threw) =>
              IF pure.outcome.type = "response" /\ pure.outcome.status \in 200..299
              THEN ~pure.outcome.json /\ ~pure.settled.error.isApiClientError
              ELSE /\ pure.settled.error.isApiClientError
                   /\ pure.settled.error.kind \in ApiErrorKinds
        /\ (pure.stage = "settled" /\ ~pure.settled.threw) =>
              /\ pure.outcome.type = "response"
              /\ pure.outcome.status \in 200..299
              /\ pure.outcome.json

\* The client's timer fired, the rejection is an AbortError, and the error
\* raised is a TIMEOUT.
C35_Witness ==
    /\ pure.fn = "requestJson"
    /\ pure.stage = "settled"
    /\ pure.outcome.didTimeout
    /\ pure.outcome.abortError
    /\ pure.settled.threw
    /\ pure.settled.error.kind = "TIMEOUT"

-----------------------------------------------------------------------------
(* An estimation request between the client's fetch timer and the backend's
   upstream timer *)

\* const FETCH_TIMEOUT_MS = 10000
FETCH_TIMEOUT_MS == 10000

\* The longest upstream latency, in steps of StepMs.
MaxLatencySteps == 14

\* Time is counted in steps of half the client's fetch timeout.
StepMs == FETCH_TIMEOUT_MS \div 2

\* The request is sent at time 0 under the default configuration; the upstream
\* call of the backend takes upstreamLatency.
InitRoundTrip ==
    /\ AtRest
    /\ env = DefaultEnv
    /\ \E steps \in 0..MaxLatencySteps :
          pure = [ fn |-> "roundTrip", clock |-> 0,
                   upstreamLatency |-> steps * StepMs,
                   timeoutMs |-> getConfig(DefaultEnv).timeoutMs,
                   backend |-> "processing", status |-> 0,
                   client |-> "waiting", kind |-> "" ]

\* The backend has its answer: the upstream call settled, or the upstream
\* timer of timeoutMs fired and the answer is 504 upstream_timeout.
BackendDue(t) ==
    /\ t.backend = "processing"
    /\ t.clock >= (IF t.upstreamLatency < t.timeoutMs THEN t.upstreamLatency ELSE t.timeoutMs)

\* The timer of fetchWithLogging is due.
FetchTimerDue(t) == t.client = "waiting" /\ t.clock >= FETCH_TIMEOUT_MS

TimePasses ==
    /\ pure.fn = "roundTrip"
    /\ pure.backend = "processing"
    /\ ~BackendDue(pure)
    /\ ~FetchTimerDue(pure)
    /\ pure' = [pure EXCEPT !.clock = @ + StepMs]
    /\ UNCHANGED <<env, pc, request, now, call, orch, logs, response>>

\* The handler answers, whether or not the client is still connected.
BackendAnswers ==
    /\ pure.fn = "roundTrip"
    /\ BackendDue(pure)
    /\ pure' = [pure EXCEPT !.backend = "answered",
                             !.status = IF pure.upstreamLatency < pure.timeoutMs
                                        THEN 200 ELSE 504]
    /\ UNCHANGED <<env, pc, request, now, call, orch, logs, response>>

\* fetch resolves with the backend's answer and the timer is cleared.
ClientReceives ==
    /\ pure.fn = "roundTrip"
    /\ pure.client = "waiting"
    /\ pure.backend = "answered"
    /\ pure' = [pure EXCEPT !.client = "received"]
    /\ UNCHANGED <<env, pc, request, now, call, orch, logs, response>>

\* The timer of fetchWithLogging fires: didTimeout, controller.abort(), and
\* the fetch rejects with an AbortError.
FetchTimerFires ==
    /\ pure.fn = "roundTrip"
    /\ FetchTimerDue(pure)
    /\ pure' = [pure EXCEPT
                   !.client = "aborted",
                   !.kind = fetchWithLogging(
                                [ type |-> "rejected", status |-> 0, json |-> FALSE,
                                  didTimeout |-> TRUE, abortError |-> TRUE,
                                  networkMessage |-> FALSE ], "trace-1").error.kind]
    /\ UNCHANGED <<env, pc, request, now, call, orch, logs, response>>

NextRoundTrip ==
    \/ TimePasses
    \/ BackendAnswers
    \/ ClientReceives
    \/ FetchTimerFires

SpecRoundTrip == InitRoundTrip /\ [][NextRoundTrip]_vars

\* C40: under the default configuration the client's fetch timer never aborts
\* a request that the backend is still processing within its upstream timeout,
\* and an answer the backend gives, its 504 upstream_timeout included, is
\* received by the client.
C40_ClientOutwaitsBackend ==
    pure.fn = "roundTrip" =>
        /\ (pure.client = "aborted" /\ pure.backend = "processing") =>
              pure.clock > pure.timeoutMs
        /\ (pure.backend = "answered" /\ pure.client # "waiting") =>
              pure.client = "received"

-----------------------------------------------------------------------------
(* app/src/screens/PhotoCaptureScreen.tsx: the capture handler and its
   watchdog, in the two versions of the screen *)

\* The most presses of the capture button on one visit to the screen.
MaxCaptures == 2

\* The longest time followed, in steps of CaptureStepMs.
MaxClockSteps == 3

\* setTimeout(..., 5000)
WatchdogMs == 5000

CaptureStepMs == WatchdogMs \div 2

\* The version with the handler inline in onPress, and the one with
\* handleCapture and takePicture.
ScreenVersions == {"inline", "handleCapture"}

CapturedUri(i) == "file:///capture-" \o ToString(i) \o ".jpg"

\* A capture attempt: where it is waiting, what its handler captured when it
\* was rendered, its watchdog, and how it ended.
NewAttempt(at, closure) ==
    [ at |-> at, closure |-> closure, watchdog |-> "none", watchdogSettled |-> FALSE,
      armedAt |-> 0, hangs |-> 0, end |-> "running" ]

\* watchdogId = setTimeout(..., 5000)
ArmWatchdog(a, clock) == [a EXCEPT !.watchdog = "armed", !.armedAt = clock]

\* clearWatchdog() leaving the timer armed.
clearWatchdogKeepingTimer(a) ==
    IF a.watchdogSettled THEN a ELSE [a EXCEPT !.watchdogSettled = TRUE]

\* clearWatchdog() / settleWatchdog(): once only, clearTimeout of the timer if
\* there is one.
clearWatchdog(a) ==
    IF a.watchdogSettled THEN a
    ELSE [a EXCEPT !.watchdogSettled = TRUE,
                   !.watchdog = IF @ = "armed" THEN "cleared" ELSE @]

\* The attempt ends: the watchdog is cleared in finally.
Ended(a, end) == [clearWatchdog(a) EXCEPT !.at = "done", !.end = end]

\* The guards on permission, camera ref and readiness, as the handler reads
\* them: permission and isReady from its closure, the ref as it is now.
GuardReason(q, closure, granted) ==
    IF ~granted THEN "permission_missing"
    ELSE IF q.version = "inline" /\ ~closure.isReady THEN "camera_not_ready"
    ELSE IF ~q.mounted THEN "camera_ref_missing"
    ELSE IF ~closure.isReady THEN "camera_not_ready"
    ELSE "none"

\* takePicture from its guards on (version handleCapture), and the end of
\* handleCapture when a guard returns.
takePictureGuards(q, i, granted) ==
    IF GuardReason(q, q.attempts[i].closure, granted) # "none"
    THEN [q EXCEPT !.attempts[i] = Ended(@, "guard"),
                   !.alerts = @ + 1,
                   !.isCapturing = FALSE]
    ELSE [q EXCEPT !.attempts[i].at = "capture"]

\* The press handler up to its first await.
onPress(q, closure) ==
    LET i == Len(q.attempts) + 1 IN
    IF q.version = "inline"
    THEN [q EXCEPT !.alerts = @ + 1,
                   !.attempts = Append(@, NewAttempt("uuid", closure))]
    ELSE IF closure.isCapturing
    THEN [q EXCEPT !.alerts = @ + 1,
                   !.attempts = Append(@, [NewAttempt("done", closure) EXCEPT !.end = "guard"])]
    ELSE LET started == [q EXCEPT
                            !.alerts = @ + 1,
                            !.isCapturing = TRUE,
                            !.attempts = Append(@, ArmWatchdog(NewAttempt("permission", closure),
                                                               q.clock))]
         IN  IF closure.granted THEN takePictureGuards(started, i, TRUE) ELSE started

\* The inline handler resumed after `await createUuidV4()`: the guards, then
\* setIsCapturing(true), the watchdog and takePictureAsync.
AfterUuid(q, i) ==
    LET closure == q.attempts[i].closure IN
    IF closure.isCapturing \/ GuardReason(q, closure, closure.granted) # "none"
    THEN [q EXCEPT !.attempts[i] = Ended(@, "guard"), !.alerts = @ + 1]
    ELSE [q EXCEPT !.isCapturing = TRUE,
                   !.attempts[i] = [ArmWatchdog(@, q.clock) EXCEPT !.at = "capture"]]

\* The handler resumed when takePictureAsync settles: with a photo, without a
\* uri, or with a rejection.
AfterCapture(q, i, outcome) ==
    IF outcome = "photo"
    THEN [q EXCEPT !.attempts[i] = [clearWatchdog(@) EXCEPT !.at = "fileinfo"]]
    ELSE [q EXCEPT !.attempts[i] =
                       Ended(@, IF outcome = "no_uri" /\ q.version = "inline"
                                THEN "no_uri" ELSE "error"),
                   !.alerts = @ + 1,
                   !.isCapturing = FALSE]

\* The handler resumed when FileSystem.getInfoAsync settles: setPhoto and
\* navigation to the review screen, or the catch clause.
AfterFileInfo(q, i, ok) ==
    IF ok
    THEN [q EXCEPT !.attempts[i] = Ended(@, "success"),
                   !.photo = CapturedUri(i),
                   !.screen = "PhotoReview",
                   !.isCapturing = FALSE]
    ELSE [q EXCEPT !.attempts[i] = Ended(@, "error"),
                   !.alerts = @ + 1,
                   !.isCapturing = FALSE]

\* A watchdog whose signal gives the capture up.
WatchdogCallbackCancelling(q, i) ==
    IF q.attempts[i].watchdogSettled THEN [q EXCEPT !.attempts[i].watchdog = "fired"]
    ELSE [q EXCEPT !.attempts[i].watchdog = "fired",
                   !.attempts[i].watchdogSettled = TRUE,
                   !.attempts[i].hangs = @ + 1,
                   !.attempts[i].at = "done",
                   !.attempts[i].end = "error",
                   !.isCapturing = FALSE,
                   !.alerts = @ + 1]

\* The watchdog's callback: nothing once settled, else the signal.
WatchdogCallback(q, i) ==
    IF q.attempts[i].watchdogSettled THEN [q EXCEPT !.attempts[i].watchdog = "fired"]
    ELSE [q EXCEPT !.attempts[i].watchdog = "fired",
                   !.attempts[i].watchdogSettled = TRUE,
                   !.attempts[i].hangs = @ + 1,
                   !.alerts = @ + 1]

\* What the handlers of a render capture.
Captured(q) == [isCapturing |-> q.isCapturing, isReady |-> q.isReady, granted |-> q.granted]

\* The screen as mounted: the camera view is mounted when permission is
\* granted, and may or may not have reported ready.
InitCapture ==
    /\ AtRest
    /\ env = DefaultEnv
    /\ \E version \in ScreenVersions, granted \in BOOLEAN, isReady \in BOOLEAN :
          /\ isReady => granted
          /\ pure = [ fn |-> "PhotoCaptureScreen", version |-> version, clock |-> 0,
                      granted |-> granted, mounted |-> granted, isReady |-> isReady,
                      isCapturing |-> FALSE,
                      rendered |-> [isCapturing |-> FALSE, isReady |-> isReady,
                                    granted |-> granted],
                      alerts |-> 0, photo |-> Undefined, screen |-> "PhotoCapture",
                      attempts |-> <<>> ]

OnCapture == pure.fn = "PhotoCaptureScreen"

Attempts == 1..Len(pure.attempts)

\* The capture button: disabled={captureDisabled}; an alert covers the screen
\* until it is dismissed.
PressCapture ==
    /\ OnCapture
    /\ pure.screen = "PhotoCapture"
    /\ pure.alerts = 0
    /\ ~pure.rendered.isCapturing
    /\ Len(pure.attempts) < MaxCaptures
    /\ LET pressed == onPress(pure, pure.rendered)
       IN  pure' = [pressed EXCEPT !.rendered = Captured(pressed)]
    /\ UNCHANGED <<env, pc, request, now, call, orch, logs, response>>

DismissAlert ==
    /\ OnCapture
    /\ pure.alerts > 0
    /\ pure' = [pure EXCEPT !.alerts = @ - 1]
    /\ UNCHANGED <<env, pc, request, now, call, orch, logs, response>>

\* onCameraReady: setIsReady(true).
CameraReady ==
    /\ OnCapture
    /\ pure.mounted
    /\ ~pure.isReady
    /\ pure' = [pure EXCEPT !.isReady = TRUE]
    /\ UNCHANGED <<env, pc, request, now, call, orch, logs, response>>

\* A state update made outside a press handler is rendered.
RenderCapture ==
    /\ OnCapture
    /\ pure.rendered # Captured(pure)
    /\ pure' = [pure EXCEPT !.rendered = Captured(pure), !.mounted = pure.granted]
    /\ UNCHANGED <<env, pc, request, now, call, orch, logs, response>>

UuidResolves ==
    /\ OnCapture
    /\ \E i \in Attempts :
          /\ pure.attempts[i].at = "uuid"
          /\ pure' = AfterUuid(pure, i)
    /\ UNCHANGED <<env, pc, request, now, call, orch, logs, response>>

\* requestPermission() resolves, granting or not.
PermissionResolves ==
    /\ OnCapture
    /\ \E i \in Attempts, granted \in BOOLEAN :
          /\ pure.attempts[i].at = "permission"
          /\ pure' = takePictureGuards([pure EXCEPT !.granted = granted], i, granted)
    /\ UNCHANGED <<env, pc, request, now, call, orch, logs, response>>

CaptureSettles ==
    /\ OnCapture
    /\ \E i \in Attempts, outcome \in {"photo", "no_uri", "rejected"} :
          /\ pure.attempts[i].at = "capture"
          /\ pure' = AfterCapture(pure, i, outcome)
    /\ UNCHANGED <<env, pc, request, now, call, orch, logs, response>>

FileInfoSettles ==
    /\ OnCapture
    /\ \E i \in Attempts, ok \in BOOLEAN :
          /\ pure.attempts[i].at = "fileinfo"
          /\ pure' = AfterFileInfo(pure, i, ok)
    /\ UNCHANGED <<env, pc, request, now, call, orch, logs, response>>

\* A watchdog timer that has not been cleared fires once its 5000 ms are over.
WatchdogFires ==
    /\ OnCapture
    /\ \E i \in Attempts :
          /\ pure.attempts[i].watchdog = "armed"
          /\ pure.clock - pure.attempts[i].armedAt >= WatchdogMs
          /\ pure' = WatchdogCallback(pure, i)
    /\ UNCHANGED <<env, pc, request, now, call, orch, logs, response>>

\* Time passes while an attempt is under way.
CaptureTimePasses ==
    /\ OnCapture
    /\ \E i \in Attempts : pure.attempts[i].at # "done"
    /\ pure.clock < MaxClockSteps * CaptureStepMs
    /\ pure' = [pure EXCEPT !.clock = @ + CaptureStepMs]
    /\ UNCHANGED <<env, pc, request, now, call, orch, logs, response>>

NextCapture ==
    \/ PressCapture
    \/ DismissAlert
    \/ CameraReady
    \/ RenderCapture
    \/ UuidResolves
    \/ PermissionResolves
    \/ CaptureSettles
    \/ FileInfoSettles
    \/ WatchdogFires
    \/ CaptureTimePasses

SpecCapture == InitCapture /\ [][NextCapture]_vars

(* Claims about the capture screen, checked under SpecCapture *)

\* The attempts whose takePictureAsync call has been made and has not settled.
CapturesInFlight == {i \in Attempts : pure.attempts[i].at = "capture"}

AllAttemptsEnded == \A i \in Attempts : pure.attempts[i].at = "done"

\* C38: on the capture screen, whatever the interleaving of presses, at most
\* one takePictureAsync call is in flight at a time, and once the capture
\* attempts have ended isCapturing is false.
C38_AtMostOneCaptureInFlight ==
    OnCapture =>
        /\ Cardinality(CapturesInFlight) <= 1
        /\ AllAttemptsEnded => ~pure.isCapturing

\* The attempts that are waiting for requestPermission or takePictureAsync.
NotSettledAttempt(i) == pure.attempts[i].at \in {"permission", "capture"}

\* C37: per capture attempt the watchdog emits its signal at most once, only
\* when the attempt has been unsettled for 5 seconds, never once the capture
\* has settled; an attempt that has ended has no armed watchdog timer.
C37_WatchdogSignalsOnceAndIsCleared ==
    /\ [](OnCapture =>
            \A i \in Attempts :
               /\ pure.attempts[i].hangs <= 1
               /\ pure.attempts[i].at = "done" => pure.attempts[i].watchdog # "armed")
    /\ [][OnCapture =>
            \A i \in Attempts :
               pure'.attempts[i].hangs > pure.attempts[i].hangs =>
                  /\ NotSettledAttempt(i)
                  /\ pure.clock - pure.attempts[i].armedAt >= WatchdogMs]_vars

\* An attempt ended after more than 5 seconds without a signal, its timer
\* cleared; and one that ended after its watchdog had signalled.
C37_Witness ==
    /\ OnCapture
    /\ \E i \in Attempts :
          /\ pure.attempts[i].at = "done"
          /\ pure.attempts[i].watchdog = "cleared"
          /\ pure.attempts[i].hangs = 0
          /\ pure.clock - pure.attempts[i].armedAt >= WatchdogMs

C37_WitnessSignalled ==
    /\ OnCapture
    /\ \E i \in Attempts :
          /\ pure.attempts[i].at = "done"
          /\ pure.attempts[i].watchdog = "fired"
          /\ pure.attempts[i].hangs = 1

\* C33: the watchdog never cancels the capture. Its signal leaves the attempt
\* where it was waiting and the photo and screen as they were, and when the
\* capture of an attempt whose watchdog has signalled completes, the photo is
\* stored in the capture context and the app navigates to the review screen.
C33_WatchdogNeverCancelsCapture ==
    [][OnCapture =>
         \A i \in Attempts :
            /\ pure'.attempts[i].hangs > pure.attempts[i].hangs =>
                  /\ pure'.attempts[i].at = pure.attempts[i].at
                  /\ pure'.attempts[i].end = pure.attempts[i].end
                  /\ pure'.photo = pure.photo
                  /\ pure'.screen = pure.screen
                  /\ pure'.isCapturing = pure.isCapturing
            /\ ( /\ pure.attempts[i].hangs = 1
                 /\ pure.attempts[i].at = "fileinfo"
                 /\ pure'.attempts[i].end = "success" ) =>
                  /\ pure'.photo = CapturedUri(i)
                  /\ pure'.screen = "PhotoReview"]_vars

\* The watchdog has signalled, the capture has completed after it, the photo
\* is stored and the review screen is shown.
C33_Witness ==
    /\ OnCapture
    /\ \E i \in Attempts :
          /\ pure.attempts[i].hangs = 1
          /\ pure.attempts[i].end = "success"
          /\ pure.photo = CapturedUri(i)
          /\ pure.screen = "PhotoReview"

-----------------------------------------------------------------------------
(* app/src/services/i18n.ts: loadLocalization and its cache *)

\* The loads followed, one after the other on the same device.
MaxLoads == 2

\* computeUiVersion(): the SHA-256 of the app's own en.json.
AppUiVersion == "sha256-of-app-en"

\* The ui_version the server can report in `latest`: that of the app's
\* en.json, that of another en.json, or none.
ServerUiVersions == {AppUiVersion, "sha256-of-other-en", ""}

\* ../localization/en.json, with a header key.
enStrings ==
    JObj([ k \in {"__file_header_en", "capture_photo"} |->
             IF k = "capture_photo" THEN JStr("Take photo") ELSE JStr("Purpose: strings") ])

\* The bodies a pack download can have: a pack of the locale, or JSON that is
\* not an object.
PackBodies ==
    { JObj([ k \in {"__file_header_pack", "capture_photo"} |->
               IF k = "capture_photo" THEN JStr("Tomar foto") ELSE JStr("Purpose: pack") ]),
      JNull }

IsHeaderKey(key) ==
    /\ Len(key) >= Len("__file_header_")
    /\ SubSeq(key, 1, Len("__file_header_")) = "__file_header_"

\* stripHeaderKeys(strings); Object.entries throws a TypeError on null.
stripHeaderKeys(v) ==
    IF ~CanRead(v) THEN Throw(OtherError("TypeError", "Cannot convert undefined or null to object"))
    ELSE Return(JObj([k \in {key \in DOMAIN Spread(v) : ~IsHeaderKey(key)} |-> v.o[k]]))

\* { ...a, ...b }
SpreadBoth(a, b) ==
    JObj([k \in (DOMAIN a.o) \cup (DOMAIN b.o) |-> IF k \in DOMAIN b.o THEN b.o[k] ELSE a.o[k]])

baseStrings == stripHeaderKeys(enStrings).value

\* { ...baseStrings, ...stripHeaderKeys(pack) }
WithPack(pack) ==
    LET stripped == stripHeaderKeys(pack) IN
    IF stripped.threw THEN stripped ELSE Return(SpreadBoth(baseStrings, stripped.value))

\* JSON.stringify of a pack: null, or an object of strings.
RECURSIVE StringifyMembers(_, _)
StringifyMembers(o, keys) ==
    IF keys = {} THEN <<>>
    ELSE LET k == CHOOSE x \in keys : TRUE
             rest == StringifyMembers(o, keys \ {k})
         IN  <<Quote(k), ":", Quote(o[k].s)>> \o (IF rest = <<>> THEN <<>> ELSE <<",">> \o rest)

JSONStringify(v) ==
    IF v.t = "null" THEN <<"null">> ELSE <<"{">> \o StringifyMembers(v.o, DOMAIN v.o) \o <<"}">>

\* The cached pack's strings over the embedded English whatever version the
\* pack was cached with, the embedded English when there is no usable pack.
stringsFromCacheAnyVersion(storage) ==
    IF storage.pack # Undefined
    THEN LET parsed == JSONParse(storage.pack) IN
         IF ~parsed.ok THEN baseStrings
         ELSE LET merged == WithPack(parsed.val) IN
              IF merged.threw THEN baseStrings ELSE merged.value
    ELSE baseStrings

\* The strings loadLocalization has before it asks the server: the cached
\* pack over the embedded English when the cached version is the app's own
\* uiVersion and the pack parses, the embedded English otherwise.
stringsFromCache(storage) ==
    IF storage.pack # Undefined /\ storage.version = AppUiVersion
    THEN LET parsed == JSONParse(storage.pack) IN
         IF ~parsed.ok THEN baseStrings
         ELSE LET merged == WithPack(parsed.val) IN
              IF merged.threw THEN baseStrings ELSE merged.value
    ELSE baseStrings

\* A device after installation: nothing cached.
InitLocalization ==
    /\ AtRest
    /\ env = DefaultEnv
    /\ \E locale \in SUPPORTED_LOCALES :
          pure = [ fn |-> "loadLocalization", locale |-> locale,
                   storage |-> [pack |-> Undefined, version |-> Undefined],
                   loads |-> 0, at |-> "idle",
                   cached |-> [pack |-> Undefined, version |-> Undefined],
                   strings |-> baseStrings, latest |-> "", pack |-> JNull,
                   fetchFailed |-> FALSE, threw |-> FALSE ]

OnLocalization == pure.fn = "loadLocalization"

\* return { locale, strings, uiVersion }
ReturnStrings(q, strings, fetchFailed) ==
    [q EXCEPT !.at = "returned", !.strings = strings, !.fetchFailed = fetchFailed]

\* loadLocalization(locale) up to the request for `latest`.
CallLoadLocalization ==
    /\ OnLocalization
    /\ pure.at \in {"idle", "returned"}
    /\ pure.loads < MaxLoads
    /\ LET strings == stringsFromCache(pure.storage)
           started == [pure EXCEPT !.loads = @ + 1, !.cached = pure.storage,
                                   !.strings = strings, !.latest = "", !.pack = JNull,
                                   !.fetchFailed = FALSE, !.threw = FALSE]
       IN  pure' = IF pure.locale # "en"
                   THEN [started EXCEPT !.at = "latest"]
                   ELSE ReturnStrings(started, strings, FALSE)
    /\ UNCHANGED <<env, pc, request, now, call, orch, logs, response>>

\* getLocalizationLatest(locale) settles.
LatestSettles ==
    /\ OnLocalization
    /\ pure.at = "latest"
    /\ \E outcome \in FetchOutcomes, version \in ServerUiVersions :
          LET got == requestJson(outcome, createUuidV4(pure.loads)) IN
          pure' = IF got.threw THEN ReturnStrings(pure, pure.strings, TRUE)
                  ELSE IF version # "" /\ version # pure.cached.version
                  THEN [pure EXCEPT !.at = "pack", !.latest = version]
                  ELSE ReturnStrings(pure, pure.strings, FALSE)
    /\ UNCHANGED <<env, pc, request, now, call, orch, logs, response>>

\* fetchWithLogging(latest.pack_url) settles, and response.json().
PackSettles ==
    /\ OnLocalization
    /\ pure.at = "pack"
    /\ \E outcome \in FetchOutcomes, body \in PackBodies :
          LET fetched == fetchWithLogging(outcome, Undefined) IN
          pure' = IF fetched.threw \/ ~ResponseOk(fetched.response) \/ ~fetched.response.json
                  THEN ReturnStrings(pure, pure.strings, TRUE)
                  ELSE [pure EXCEPT !.at = "storePack", !.pack = body]
    /\ UNCHANGED <<env, pc, request, now, call, orch, logs, response>>

\* setStorageItem of the pack settles.
PackStoreSettles ==
    /\ OnLocalization
    /\ pure.at = "storePack"
    /\ \E ok \in BOOLEAN :
          pure' = IF ok
                  THEN [pure EXCEPT !.at = "storeVersion",
                                    !.storage.pack = JSONStringify(pure.pack)]
                  ELSE ReturnStrings(pure, pure.strings, FALSE)
    /\ UNCHANGED <<env, pc, request, now, call, orch, logs, response>>

\* setStorageItem of the version settles; then the pack's strings.
VersionStoreSettles ==
    /\ OnLocalization
    /\ pure.at = "storeVersion"
    /\ \E ok \in BOOLEAN :
          LET merged == WithPack(pure.pack) IN
          pure' = IF ~ok THEN ReturnStrings(pure, pure.strings, FALSE)
                  ELSE ReturnStrings([pure EXCEPT !.storage.version = pure.latest],
                                     IF merged.threw THEN pure.strings ELSE merged.value,
                                     FALSE)
    /\ UNCHANGED <<env, pc, request, now, call, orch, logs, response>>

NextLocalization ==
    \/ CallLoadLocalization
    \/ LatestSettles
    \/ PackSettles
    \/ PackStoreSettles
    \/ VersionStoreSettles

SpecLocalization == InitLocalization /\ [][NextLocalization]_vars

(* Claims about loadLocalization, checked under SpecLocalization *)

\* What the claim promises when the fetch fails: the cached pack's strings
\* over the embedded English if a pack was cached, the embedded English
\* otherwise.
PromisedOnFailure(cached) == stringsFromCacheAnyVersion(cached)

\* C34: loadLocalization for a non-English locale never fails because the
\* localization fetch fails: it then returns the cached pack's strings if a
\* pack is cached for the locale, and the embedded English strings otherwise.
C34_FetchFailureFallsBackToCache ==
    ( /\ OnLocalization
      /\ pure.at = "returned"
      /\ pure.locale # "en"
      /\ pure.fetchFailed ) =>
        /\ ~pure.threw
        /\ pure.strings = PromisedOnFailure(pure.cached)

-----------------------------------------------------------------------------
(* The local store (services/i18n.ts, second half): the write queue, the
   load, and the operations on entries and settings *)

\* The calls followed, initDatabase included.
MaxOps == 3

\* Times are in seconds here; the source's are in milliseconds.
MAX_ENTRY_AGE_S == 30 * 24 * 60 * 60

\* Date.now(), kept fixed.
NowS == 2 * MAX_ENTRY_AGE_S

\* The ts an entry can have: now, exactly 30 days ago, and older.
EntryTimes == {NowS, NowS - MAX_ENTRY_AGE_S, NowS - MAX_ENTRY_AGE_S - 1}

StoredEntry(id, ts, note) == [id |-> id, ts |-> ts, note |-> note]

\* A StoredState, and the absence of one (null).
StoredState(entries, settings) == [present |-> TRUE, entries |-> entries, settings |-> settings]
NoStoredState == [present |-> FALSE, entries |-> <<>>, settings |-> <<>>]

defaultState == StoredState(<<>>, <<>>)

\* pruneEntries(entries, nowMs).entries: the entries whose ts is not before
\* the cutoff, in their order.
RECURSIVE pruneEntries(_, _)
pruneEntries(entries, nowS) ==
    IF entries = <<>> THEN <<>>
    ELSE LET rest == pruneEntries(Tail(entries), nowS) IN
         IF Head(entries).ts < nowS - MAX_ENTRY_AGE_S THEN rest ELSE <<Head(entries)>> \o rest

\* A queued operation: what was asked, where it is, and the state it is
\* persisting once it has computed it.
WriteOp(kind, id, ts, value) ==
    [kind |-> kind, id |-> id, ts |-> ts, value |-> value, at |-> "queued", next |-> NoStoredState]

RECURSIVE MapEntries(_, _, _)
MapEntries(entries, id, note) ==
    IF entries = <<>> THEN <<>>
    ELSE <<IF Head(entries).id = id THEN [Head(entries) EXCEPT !.note = note] ELSE Head(entries)>>
         \o MapEntries(Tail(entries), id, note)

RECURSIVE FilterEntries(_, _)
FilterEntries(entries, id) ==
    IF entries = <<>> THEN <<>>
    ELSE (IF Head(entries).id = id THEN <<>> ELSE <<Head(entries)>>) \o FilterEntries(Tail(entries), id)

\* The state an operation hands to persistState, from the state loadState gave
\* it; the write of initDatabase persists the state initDatabase worked out
\* when it queued it.
StateToPersist(op, state) ==
    CASE op.kind = "addEntry" ->
            [state EXCEPT !.entries =
                pruneEntries(Append(state.entries, StoredEntry(op.id, op.ts, op.value)), NowS)]
      [] op.kind = "updateEntry" ->
            [state EXCEPT !.entries = pruneEntries(MapEntries(state.entries, op.id, op.value), NowS)]
      [] op.kind = "deleteEntry" ->
            [state EXCEPT !.entries = pruneEntries(FilterEntries(state.entries, op.id), NowS)]
      [] op.kind = "setSettingValue" ->
            [state EXCEPT !.entries = pruneEntries(state.entries, NowS),
                          !.settings = PutMember(state.settings, op.id, op.value)]
      [] OTHER -> op.next

OpsAt(q, places) == {i \in 1..Len(q.ops) : q.ops[i].at \in places}

\* The operation the write chain is running, if any.
RunningOps(q) == OpsAt(q, {"loading", "persisting"})

\* An operation starts: the write of initDatabase calls persistState at once,
\* the others call loadState first, which answers from cachedState or waits
\* for the load (starting it when none is pending).
StartOp(q, i) ==
    LET op == q.ops[i] IN
    IF op.kind = "initDatabase" THEN [q EXCEPT !.ops[i].at = "persisting"]
    ELSE IF q.cachedState.present
    THEN [q EXCEPT !.ops[i].at = "persisting", !.ops[i].next = StateToPersist(op, q.cachedState)]
    ELSE [q EXCEPT !.ops[i].at = "loading", !.loadPending = TRUE]

\* writeChain: the first queued operation starts once nothing is running.
Advance(q) ==
    IF RunningOps(q) = {} /\ OpsAt(q, {"queued"}) # {}
    THEN StartOp(q, CHOOSE i \in OpsAt(q, {"queued"}) : \A j \in OpsAt(q, {"queued"}) : i <= j)
    ELSE q

\* queueWrite(operation)
queueWrite(q, op) == Advance([q EXCEPT !.ops = Append(@, op)])

\* initDatabase once loadState has answered: the pruned state, queued for
\* writing when something was pruned.
initDatabaseAfterLoad(q) ==
    LET state == q.cachedState
        pruned == pruneEntries(state.entries, NowS)
        done == [q EXCEPT !.init = "done"]
    IN  IF Len(pruned) < Len(state.entries)
        THEN queueWrite(done, [WriteOp("initDatabase", "", 0, "") EXCEPT
                                  !.next = [state EXCEPT !.entries = pruned]])
        ELSE done

\* What storage holds at launch: nothing, or a state an earlier launch
\* persisted, with an entry that is now of one of the three ages.
InitStore ==
    /\ AtRest
    /\ env = DefaultEnv
    /\ \E disk \in {NoStoredState}
                   \cup {StoredState(<<StoredEntry("entry-0", ts, "")>>, <<>>) : ts \in EntryTimes} :
          pure = [ fn |-> "store", disk |-> disk, cachedState |-> NoStoredState,
                   loadPending |-> FALSE, init |-> "idle", ops |-> <<>>, calls |-> 0 ]

OnStore == pure.fn = "store"

Called(q) == [q EXCEPT !.calls = @ + 1]

CallInitDatabase ==
    /\ OnStore
    /\ pure.init = "idle"
    /\ pure.calls < MaxOps
    /\ pure' = IF pure.cachedState.present THEN initDatabaseAfterLoad(Called(pure))
               ELSE [Called(pure) EXCEPT !.init = "loading", !.loadPending = TRUE]
    /\ UNCHANGED <<env, pc, request, now, call, orch, logs, response>>

CallAddEntry ==
    /\ OnStore
    /\ pure.calls < MaxOps
    /\ \E ts \in EntryTimes :
          pure' = queueWrite(Called(pure),
                             WriteOp("addEntry", "entry-" \o ToString(pure.calls + 1), ts, ""))
    /\ UNCHANGED <<env, pc, request, now, call, orch, logs, response>>

CallUpdateEntry ==
    /\ OnStore
    /\ pure.calls < MaxOps
    /\ pure' = queueWrite(Called(pure), WriteOp("updateEntry", "entry-0", 0, "edited"))
    /\ UNCHANGED <<env, pc, request, now, call, orch, logs, response>>

CallDeleteEntry ==
    /\ OnStore
    /\ pure.calls < MaxOps
    /\ pure' = queueWrite(Called(pure), WriteOp("deleteEntry", "entry-0", 0, ""))
    /\ UNCHANGED <<env, pc, request, now, call, orch, logs, response>>

CallSetSettingValue ==
    /\ OnStore
    /\ pure.calls < MaxOps
    /\ pure' = queueWrite(Called(pure),
                          WriteOp("setSettingValue", "device_install_id", 0,
                                  "value-" \o ToString(pure.calls + 1)))
    /\ UNCHANGED <<env, pc, request, now, call, orch, logs, response>>

\* AsyncStorage.getItem resolves: the stored state, or the default one, becomes
\* cachedState, and what awaited loadState goes on.
LoadResolves ==
    /\ OnStore
    /\ pure.loadPending
    /\ LET state == IF pure.disk.present THEN pure.disk ELSE defaultState
           loaded == [pure EXCEPT !.cachedState = state, !.loadPending = FALSE]
           resumed == [loaded EXCEPT !.ops =
                          [i \in DOMAIN pure.ops |->
                              IF pure.ops[i].at = "loading"
                              THEN [pure.ops[i] EXCEPT
                                       !.at = "persisting",
                                       !.next = StateToPersist(pure.ops[i], state)]
                              ELSE pure.ops[i]]]
       IN  pure' = IF pure.init = "loading" THEN initDatabaseAfterLoad(resumed) ELSE resumed
    /\ UNCHANGED <<env, pc, request, now, call, orch, logs, response>>

\* AsyncStorage.setItem settles: on success the state is stored and becomes
\* cachedState; either way the next queued operation starts.
PersistSettles ==
    /\ OnStore
    /\ \E i \in OpsAt(pure, {"persisting"}), ok \in BOOLEAN :
          pure' = Advance(IF ok
                          THEN [pure EXCEPT !.ops[i].at = "done",
                                            !.disk = pure.ops[i].next,
                                            !.cachedState = pure.ops[i].next]
                          ELSE [pure EXCEPT !.ops[i].at = "failed"])
    /\ UNCHANGED <<env, pc, request, now, call, orch, logs, response>>

NextStore ==
    \/ CallInitDatabase
    \/ CallAddEntry
    \/ CallUpdateEntry
    \/ CallDeleteEntry
    \/ CallSetSettingValue
    \/ LoadResolves
    \/ PersistSettles

SpecStore == InitStore /\ [][NextStore]_vars

(* Claims about the local store, checked under SpecStore *)

\* Every operation has completed.
Quiescent ==
    /\ pure.init # "loading"
    /\ ~pure.loadPending
    /\ OpsAt(pure, {"queued", "loading", "persisting"}) = {}

IdsOf(entries) == {entries[k].id : k \in 1..Len(entries)}

\* Writes run one at a time, in the order they were queued.
RunOneAtATimeInOrder ==
    /\ Cardinality(RunningOps(pure)) <= 1
    /\ \A i \in OpsAt(pure, {"loading", "persisting", "done", "failed"}) :
          \A j \in 1..(i - 1) : pure.ops[j].at \in {"done", "failed"}

\* The queue never stalls: a queued write waits only for a running one.
FailureDoesNotBlock == OpsAt(pure, {"queued"}) # {} => RunningOps(pure) # {}

\* The settings writes that succeeded.
SettingWrites == {i \in OpsAt(pure, {"done"}) : pure.ops[i].kind = "setSettingValue"}

\* Every entry added by a write that succeeded and not older than 30 days is
\* in the persisted state, and so is the last value of every setting set.
NothingLost ==
    /\ \A i \in OpsAt(pure, {"done"}) :
          ( /\ pure.ops[i].kind = "addEntry"
            /\ pure.ops[i].ts >= NowS - MAX_ENTRY_AGE_S ) =>
              /\ pure.disk.present
              /\ pure.ops[i].id \in IdsOf(pure.disk.entries)
    /\ SettingWrites # {} =>
          LET last == CHOOSE i \in SettingWrites : \A j \in SettingWrites : j <= i IN
          /\ pure.disk.present
          /\ pure.ops[last].id \in DOMAIN pure.disk.settings
          /\ pure.disk.settings[pure.ops[last].id] = pure.ops[last].value

\* C39: no update to the local store is lost. Whatever the interleaving of
\* initDatabase, addEntry, updateEntry, deleteEntry and setSettingValue, the
\* writes run one at a time in the order they were queued, a failed write does
\* not keep later ones from running, and once all operations have completed
\* the persisted state has every added entry not older than 30 days and every
\* setting that was set.
C39_NoUpdateLost ==
    OnStore =>
        /\ RunOneAtATimeInOrder
        /\ FailureDoesNotBlock
        /\ Quiescent => NothingLost

====
